---- MODULE Spec2Model ----
(***************************************************************************)
(* A model of the misskey-bot event engine: the durable dedup store        *)
(* (src/src/persistence.py), the admission gate and response handlers of   *)
(* MisskeyBot (src/src/bot.py), the plugin hook dispatcher                 *)
(* (src/src/plugin_manager.py), the auto-post job and the retry loops of   *)
(* the upstream clients (src/src/misskey_api.py, src/src/utils.py).        *)
(*                                                                         *)
(* The module holds several specifications over one set of variables; each *)
(* one moves the variables of one component and leaves the others alone:   *)
(*   Spec        the two producers, the admission gate, the handlers,      *)
(*               crash and restart                                         *)
(*   SpecStore   the store's operations driven directly, with a clock and  *)
(*               a local time zone                                         *)
(*   SpecPlugin  PluginManager.call_plugin_hook                            *)
(*   SpecAuto    the scheduler's auto-post job and the daily reset         *)
(*   SpecRetry   MisskeyAPI._make_request's attempt loop and its delays    *)
(*   SpecTrunc   the length limit applied at the three delivery sites      *)
(***************************************************************************)
EXTENDS Integers, Sequences, FiniteSets, TLC

None == "None"

(***************************************************************************)
(* Bounds of the model.                                                    *)
(***************************************************************************)
\* capacity of the two in-memory deques (the value is set in
\* src/constants.py; the model takes a small one)
MAX_PROCESSED_ITEMS_CACHE == 1
\* the UTC clock (CURRENT_TIMESTAMP) runs from 0 to MaxClock, in ticks
MaxClock == 4
\* ticks in a day
TicksPerDay == 4
\* cleanup_old_records is called with 0..MaxDays days
MaxDays == 1
\* how many distinct events the two producers bring in during one behaviour
MaxEvents == 2
\* plugin priorities run from 0 to MaxPriority
MaxPriority == 2
\* bot.auto_post.max_posts_per_day is configured as 0..MaxCap
MaxCap == 2
\* the wall-clock day runs from 0 to MaxDate
MaxDate == 3
\* retry_async is given max_retries in 0..MaxRetries
MaxRetries == 4
\* generated texts have up to MaxTextLen characters, and the configured
\* maximum length runs from 0 to MaxLength
MaxTextLen == 5
MaxLength == 5
\* how many errors of one class self.error_counts counts
MaxErrors == 1
\* how many events one poll brings back
MaxBatch == 3
\* how many failed connection attempts in a row a behaviour goes through
MaxFails == 12
\* the capacity of the recent-id cache runs from 1 to MaxCacheCap, and up to
\* MaxCacheRows ids are admitted in one behaviour
MaxCacheCap == 2
MaxCacheRows == 3
\* up to MaxPending tasks spawned by one scheduler job wait for their turn,
\* and the count of the runs of one job is followed up to MaxRuns
MaxPending == 2
MaxRuns == 2
\* a conversation holds up to MaxStored earlier messages
MaxStored == 6
\* start() and stop() are called up to MaxCalls times in all
MaxCalls == 8

(***************************************************************************)
(* Python helpers.                                                         *)
(***************************************************************************)
Min(a, b) == IF a < b THEN a ELSE b
Max(a, b) == IF a > b THEN a ELSE b

\* s[:k] of a Python sequence: a negative k counts from the end
PySlice(s, k) ==
    IF k >= 0 THEN SubSeq(s, 1, Min(k, Len(s)))
    ELSE SubSeq(s, 1, Max(Len(s) + k, 0))

Ellipsis == <<".", ".", ".">>

\* a reply passed on at its full length
TruncateNever(reply, max_length) == reply

\* if len(reply) > max_length: reply = reply[:max_length-3] + "..."
Truncate(reply, max_length) ==
    IF Len(reply) > max_length
    THEN PySlice(reply, max_length - 3) \o Ellipsis
    ELSE reply

\* collections.deque(maxlen=n).append(x)
DequeAppend(q, x, n) ==
    IF n = 0 THEN <<>>
    ELSE IF Len(q) >= n THEN Tail(q) \o <<x>>
    ELSE q \o <<x>>

Range(s) == {s[i] : i \in 1..Len(s)}

(***************************************************************************)
(* The durable store: two tables of rows.  A row is                        *)
(*   [id, user_id, extra, processed_at]                                    *)
(* where id is note_id / message_id (UNIQUE NOT NULL), extra is username / *)
(* chat_type and processed_at defaults to CURRENT_TIMESTAMP (UTC).  The    *)
(* integer primary key is left out: no operation reads it.                 *)
(***************************************************************************)
Row(id, user_id, extra, at) ==
    [id |-> id, user_id |-> user_id, extra |-> extra, processed_at |-> at]

\* INSERT OR REPLACE: the old row goes, a new one takes its place
InsertOrReplace(table, id, user_id, extra, at) ==
    {r \in table : r.id # id} \cup {Row(id, user_id, extra, at)}

\* an INSERT whose result never reaches the table
InsertLost(table, id, user_id, extra, at) == table

\* INSERT OR IGNORE INTO t (id, user_id, extra) VALUES (?, ?, ?); commit
InsertOrIgnore(table, id, user_id, extra, at) ==
    IF \E r \in table : r.id = id THEN table
    ELSE table \cup {Row(id, user_id, extra, at)}

\* SELECT 1 FROM t LIMIT 1: the query without its WHERE clause
IsProcessedAnyRow(table, id) == table # {}

\* SELECT 1 FROM t WHERE id = ? LIMIT 1 ... fetchone() is not None
IsProcessed(table, id) == \E r \in table : r.id = id

RowsOf(table, id) == {r \in table : r.id = id}

\* SELECT ... ORDER BY processed_at DESC LIMIT n: every answer SQLite may
\* give (rows with equal processed_at come in no fixed order)
RecentRows(table, n) ==
    LET k == Min(n, Cardinality(table))
    IN  {s \in [1..k -> table] :
            /\ \A i, j \in 1..k : i < j => s[i] # s[j]
            /\ \A i, j \in 1..k :
                   i < j => s[i].processed_at >= s[j].processed_at
            /\ \A r \in table :
                   r \notin Range(s) =>
                       \A i \in 1..k : s[i].processed_at >= r.processed_at}

\* for row in recent: cache.append(row['note_id'])
RECURSIVE LoadCache(_, _, _)
LoadCache(q, rows, n) ==
    IF rows = <<>> THEN q
    ELSE LoadCache(DequeAppend(q, Head(rows).id, n), Tail(rows), n)

(***************************************************************************)
(* Events as the two producers hand them to the handlers.  user is the     *)
(* author id (None when the payload carries no author), has_text says      *)
(* whether the text field is there, old says whether createdAt lies before *)
(* the start of the process.  One id always stands for one payload.        *)
(***************************************************************************)
BotId == "bot"

Ev(id, kind, user, has_text, old) ==
    [id |-> id, kind |-> kind, user |-> user, has_text |-> has_text,
     old |-> old]

Events ==
    { Ev("n1", "mention", "u1", TRUE, FALSE),
      Ev("n2", "mention", BotId, TRUE, FALSE),
      Ev("n3", "mention", "u1", TRUE, TRUE),
      Ev("n4", "mention", None, TRUE, FALSE),
      Ev("g1", "message", "u1", TRUE, FALSE),
      Ev("g2", "message", BotId, TRUE, FALSE) }

Mentions == {e \in Events : e.kind = "mention"}
Messages == {e \in Events : e.kind = "message"}
Ids == {e.id : e \in Events}
EventOf(id) == CHOOSE e \in Events : e.id = id

Tasks == {"ws", "poll"}

\* what the completion client may answer
GenTexts == { <<"h", "i">>, <<"a", "b", "c", "d", "e", "f", "g">> }
\* bot.response.max_response_length as configured for the handlers of Spec
ResponseMaxLength == 5

\* outcomes of DeepSeekAPI.generate_reply / generate_chat_response
\* ("api" is APIRateLimitError, APIConnectionError or AuthenticationError,
\* "value" a ValueError, "other" any other exception)
GenOutcomes == {"ok", "api", "value", "other"}
\* outcomes of MisskeyAPI.create_note / send_message (_make_request)
SendOutcomes == {"ok", "api", "value", "other"}

VARIABLES
    \* MisskeyBot
    running, bot_user_id, processed_mentions, processed_messages,
    \* PersistenceManager: the two tables, the connection, the UTC clock, the
    \* offset of local time from UTC, what the last direct call gave, and per
    \* table the ids that direct calls have marked and cleanup has not removed
    db_mentions, db_messages, conn_open, now, tz, last_op, marked,
    \* the tasks of the two producers: where each one stands in its handler
    pc, cur, reply, owner,
    \* what has been asked of the upstream clients, per event id
    \* (sent counts the deliveries, generated replies and error replies, and
    \* keeps the text of the last generated reply delivered)
    gen_calls, reply_calls, sent,
    \* whether the process has ever died
    crashed,
    \* the ids the producers have brought in so far, and those among them
    \* that a handler has turned away as already processed
    arrived, dropped,
    \* the ids a handler has appended to its cache since the process started
    appended,
    \* PluginManager: the plugins, and one call of call_plugin_hook
    plugins, hook_pc, sorted_plugins, invoked, results, hook_log,
    \* the auto-post job: the counter, its day, the wall-clock day, the job's
    \* position, the value read by `+= 1`, the configured cap, the posts made
    \* since the last reset, whether the midnight cron job is due, and how
    \* the last firing ended
    posts_today, today, date, ap_pc, ap_tmp, max_posts, since_reset, cron_due,
    ap_last,
    \* retry_async: its arguments, the loop counter and the delays slept
    r_pc, attempt, max_retries, base_delay, max_delay, slept, calls,
    \* the length limit: the generated text, the configured maximum, the
    \* site that delivers it and what is delivered
    t_text, t_max, t_site, t_out,
    \* MisskeyAPI._make_request: where the loop stands, its counter, the
    \* configured number of attempts, the answers got so far (one per
    \* attempt), the number of sleeps, and the error raised to the caller
    q_pc, q_attempt, q_max, q_seen, q_sleeps, q_error,
    \* error handling: self.error_counts, and for the last failure the site
    \* where it happened, the class of the exception, what _handle_error
    \* returned and the text sent to the user (None when nothing was sent)
    error_counts, e_site, e_error, e_returned, e_sent,
    \* shutdown: the event loop's queue of tasks ready to run, the state of
    \* each task, the tasks whose cancellation was requested, whether the
    \* scheduler still fires jobs, where stop() stands, the resources it has
    \* closed, and the operations tasks did on a resource after its close
    ready, task, cancelled, scheduler_running, stop_pc, closed, late,
    \* failures per event: the producer at work and the kind of its events,
    \* the events it has in hand (each named by what goes wrong with it),
    \* the position of the loop over them, what was done for each event, and
    \* where the producer's loop stands
    f_src, f_kind, f_batch, f_pos, f_log, f_loop,
    \* the streaming producer: where it stands, the two locals of
    \* connect_websocket, the retry_count of _start_websocket, the delay of
    \* the last sleep, and the failed attempts since the last connection;
    \* the polling producer: where it stands; self.running as the two loops
    \* see it, and the producers whose task stop() has cancelled
    ws_pc, reconnect_attempts, reconnect_delay, retry_count, ws_slept,
    ws_fails, poll_pc, l_running, l_cancelled,
    \* the recent-id cache over restarts: its capacity, the durable records
    \* of the mentions, the deque, the clock of the store, and the id the
    \* last append pushed out (None when it pushed none out)
    c_cap, c_rows, c_cache, c_now, c_evicted,
    \* the scheduler's jobs: per job the runs in progress and the tasks it
    \* has spawned that have not run yet, and what became of the last firing
    j_runs, j_pending, j_last,
    \* the lock of the store: where each caller stands in its operation, who
    \* holds the lock, who waits for it, and how each caller's last
    \* operation ended
    op_pc, lock_holder, lock_waiters, op_last,
    \* the history of a direct message: the conversation upstream (newest
    \* first), the system prompt, the list built for the completion client
    \* and how far the handler has come
    h_stored, h_prompt, chat_history, h_pc,
    \* _poll_mentions with its failures: where the loop stands, its locals
    \* retry_count and base_delay, the delay of the sleep it is in or was
    \* last in, how the last cycle ended, self.running, and whether the
    \* task's cancellation was requested
    pm_pc, pm_retry_count, pm_base_delay, pm_delay, pm_last, pm_running,
    pm_cancelled,
    \* the life of the bot: self.running, whether the scheduler runs, the
    \* length of self.tasks, per producer the tasks that have not ended and
    \* those among them whose cancellation was requested, where stop()
    \* stands, whether the client's session and the store's connection are
    \* open, what the last call did, and the calls made
    lc_running, lc_scheduler, lc_tasks, lc_alive, lc_cancel, lc_pc,
    lc_client_open, lc_store_open, lc_last, lc_calls,
    \* the configuration: the kinds of event whose responses are enabled
    \* (bot.response.mention_enabled, bot.response.chat_enabled)
    enabled_kinds,
    \* the client's stream and its heartbeat
    ws_heartbeat_task, \* the field: the task it holds, 0 for None
    ws_connection,     \* "none", "open" or "closed"
    hb_state,          \* for each heartbeat task, where it is
    hb_cancel,         \* the tasks whose cancellation was requested
    hb_connect,        \* where the task running connect_websocket is
    hb_close,          \* where close() is
    hb_last,           \* the last call that began or returned
    hb_pinged          \* the connection as it was at the last ping

botVars == <<running, bot_user_id, processed_mentions, processed_messages,
             pc, cur, reply, owner, gen_calls, reply_calls, sent, crashed,
             arrived, dropped, appended>>
storeVars == <<db_mentions, db_messages, conn_open, now, tz, last_op, marked>>
pluginVars ==
    <<plugins, hook_pc, sorted_plugins, invoked, results, hook_log>>
autoVars == <<posts_today, today, date, ap_pc, ap_tmp, max_posts, since_reset,
              cron_due, ap_last>>
retryVars == <<r_pc, attempt, max_retries, base_delay, max_delay, slept,
               calls>>
truncVars == <<t_text, t_max, t_site, t_out>>
requestVars == <<q_pc, q_attempt, q_max, q_seen, q_sleeps, q_error>>
errVars == <<error_counts, e_site, e_error, e_returned, e_sent>>
stopVars == <<ready, task, cancelled, scheduler_running, stop_pc, closed,
              late>>
faultVars == <<f_src, f_kind, f_batch, f_pos, f_log, f_loop>>
loopVars == <<ws_pc, reconnect_attempts, reconnect_delay, retry_count,
              ws_slept, ws_fails, poll_pc, l_running, l_cancelled>>
cacheVars == <<c_cap, c_rows, c_cache, c_now, c_evicted>>
jobVars == <<j_runs, j_pending, j_last>>
lockVars == <<op_pc, lock_holder, lock_waiters, op_last>>
histVars == <<h_stored, h_prompt, chat_history, h_pc>>
pollVars ==
    <<pm_pc, pm_retry_count, pm_base_delay, pm_delay, pm_last, pm_running,
      pm_cancelled>>
lifeVars ==
    <<lc_running, lc_scheduler, lc_tasks, lc_alive, lc_cancel, lc_pc,
      lc_client_open, lc_store_open, lc_last, lc_calls>>
cfgVars == <<enabled_kinds>>
beatVars ==
    <<ws_heartbeat_task, ws_connection, hb_state, hb_cancel, hb_connect,
      hb_close, hb_last, hb_pinged>>
laterVars ==
    <<loopVars, cacheVars, jobVars, lockVars, histVars, pollVars, lifeVars,
      cfgVars, beatVars>>
\* for each of these groups, the others among them
notLoop ==
    <<cacheVars, jobVars, lockVars, histVars, pollVars, lifeVars, cfgVars,
      beatVars>>
notCache ==
    <<loopVars, jobVars, lockVars, histVars, pollVars, lifeVars, cfgVars,
      beatVars>>
notJob ==
    <<loopVars, cacheVars, lockVars, histVars, pollVars, lifeVars, cfgVars,
      beatVars>>
notLock ==
    <<loopVars, cacheVars, jobVars, histVars, pollVars, lifeVars, cfgVars,
      beatVars>>
notHist ==
    <<loopVars, cacheVars, jobVars, lockVars, pollVars, lifeVars, cfgVars,
      beatVars>>
notPoll ==
    <<loopVars, cacheVars, jobVars, lockVars, histVars, lifeVars, cfgVars,
      beatVars>>
notLife ==
    <<loopVars, cacheVars, jobVars, lockVars, histVars, pollVars, cfgVars,
      beatVars>>
notBeat ==
    <<loopVars, cacheVars, jobVars, lockVars, histVars, pollVars, lifeVars,
      cfgVars>>
restVars == <<requestVars, errVars, stopVars, faultVars, laterVars>>
earlierVars == <<botVars, storeVars, pluginVars, autoVars, retryVars,
                 truncVars, requestVars, errVars, stopVars, faultVars>>
\* what neither the bot's handlers nor the store touch
aside == <<pluginVars, autoVars, retryVars, truncVars, restVars>>

(***************************************************************************)
(* Cooperative scheduling.  The tasks share one event loop: a task runs     *)
(* until it awaits something that really suspends it.  owner names the     *)
(* task that holds the loop in the middle of such a stretch (None between  *)
(* stretches).  A crash of the process is no task: it may fall anywhere.   *)
(***************************************************************************)
\* an await of a store method that always gave the loop to the other tasks
StoreAwaitAlwaysYields == TRUE

\* `async with self._lock` around synchronous sqlite3 calls: the lock is free
\* whenever a task reaches it (no holder ever awaits inside), so
\* asyncio.Lock.acquire returns at once and the awaiting task keeps the loop
StoreAwaitYields == FALSE

AfterStoreAwait(t) == IF StoreAwaitYields THEN None ELSE t

Runnable(t) == owner = t \/ owner = None

Bump(f, id) == [f EXCEPT ![id] = @ + 1]

\* the producers bring in an event: one more id, or one seen before
Arrives(e) ==
    /\ e.id \in arrived \/ Cardinality(arrived) < MaxEvents
    /\ arrived' = arrived \cup {e.id}

(***************************************************************************)
(* MisskeyBot.start and a crash of the process.                            *)
(***************************************************************************)
\* start(): fetch the bot's own identity (None when that fails), fill the
\* two caches from the store, create the two producer tasks
Start(identity_ok) ==
    /\ ~running
    /\ running' = TRUE
    /\ bot_user_id' = IF identity_ok THEN BotId ELSE None
    /\ \E rm \in RecentRows(db_mentions, MAX_PROCESSED_ITEMS_CACHE),
          rg \in RecentRows(db_messages, MAX_PROCESSED_ITEMS_CACHE) :
           /\ processed_mentions' =
                  LoadCache(processed_mentions, rm, MAX_PROCESSED_ITEMS_CACHE)
           /\ processed_messages' =
                  LoadCache(processed_messages, rg, MAX_PROCESSED_ITEMS_CACHE)
    /\ pc' = [t \in Tasks |-> "idle"]
    /\ UNCHANGED <<cur, reply, owner, gen_calls, reply_calls, sent, crashed,
                   arrived, dropped, appended>>
    /\ UNCHANGED <<storeVars, aside>>

\* the process dies: everything in memory is gone, the database file stays
Crash ==
    /\ running
    /\ crashed' = TRUE
    /\ running' = FALSE
    /\ bot_user_id' = None
    /\ processed_mentions' = <<>>
    /\ processed_messages' = <<>>
    /\ pc' = [t \in Tasks |-> "idle"]
    /\ cur' = [t \in Tasks |-> None]
    /\ reply' = [t \in Tasks |-> <<>>]
    /\ owner' = None
    /\ appended' = {}
    /\ UNCHANGED <<gen_calls, reply_calls, sent, arrived, dropped>>
    /\ UNCHANGED <<storeVars, aside>>

\* CURRENT_TIMESTAMP moves on
Tick ==
    /\ now < MaxClock
    /\ now' = now + 1
    /\ UNCHANGED <<db_mentions, db_messages, conn_open, tz, last_op, marked>>
    /\ UNCHANGED <<botVars, aside>>

(***************************************************************************)
(* MisskeyBot._handle_mention, cut at its awaits.                          *)
(***************************************************************************)
\* a check that asks the cache alone
EnterHandleMentionCacheOnly(t, e) ==
    IF e.id \in Range(processed_mentions)
    THEN /\ dropped' = dropped \cup {e.id}
         /\ UNCHANGED <<pc, cur, owner>>
    ELSE /\ pc' = [pc EXCEPT ![t] = "m_validate"]
         /\ cur' = [cur EXCEPT ![t] = e.id]
         /\ owner' = AfterStoreAwait(t)
         /\ UNCHANGED dropped

\* lines 565-571: the cache, then the store; an event already seen is dropped
EnterHandleMention(t, e) ==
    IF e.id \in Range(processed_mentions) \/ IsProcessed(db_mentions, e.id)
    THEN /\ dropped' = dropped \cup {e.id}
         /\ UNCHANGED <<pc, cur, owner>>
    ELSE /\ pc' = [pc EXCEPT ![t] = "m_validate"]
         /\ cur' = [cur EXCEPT ![t] = e.id]
         /\ owner' = AfterStoreAwait(t)
         /\ UNCHANGED dropped

\* _handle_websocket_message, message_type == "mention"
WsMention(e) ==
    /\ running /\ pc["ws"] = "idle" /\ owner = None
    /\ e \in Mentions
    /\ Arrives(e)
    /\ IF e.id \notin Range(processed_mentions)
       THEN EnterHandleMention("ws", e)
       ELSE /\ dropped' = dropped \cup {e.id}
            /\ UNCHANGED <<pc, cur, owner>>
    /\ UNCHANGED <<running, bot_user_id, processed_mentions,
                   processed_messages, reply, gen_calls, reply_calls, sent,
                   crashed, appended>>
    /\ UNCHANGED <<storeVars, aside>>

\* _poll_mentions: for mention in mentions
PollMention(e) ==
    /\ running /\ pc["poll"] = "idle" /\ owner = None
    /\ e \in Mentions
    /\ Arrives(e)
    /\ IF e.id \notin Range(processed_mentions)
       THEN EnterHandleMention("poll", e)
       ELSE /\ dropped' = dropped \cup {e.id}
            /\ UNCHANGED <<pc, cur, owner>>
    /\ UNCHANGED <<running, bot_user_id, processed_mentions,
                   processed_messages, reply, gen_calls, reply_calls, sent,
                   crashed, appended>>
    /\ UNCHANGED <<storeVars, aside>>

\* a validation that lets every payload through
MissingFieldNever(e) == FALSE
\* lines 578-581: a required field is not in the payload
MissingField(e) == e.user = None \/ ~e.has_text

\* lines 574-590: the required fields, then mark_mention_processed
MentionMark(t) ==
    /\ running /\ pc[t] = "m_validate" /\ Runnable(t)
    /\ LET e == EventOf(cur[t])
       IN  IF MissingField(e)
           THEN \* ValueError: logged, nothing marked
                /\ pc' = [pc EXCEPT ![t] = "idle"]
                /\ cur' = [cur EXCEPT ![t] = None]
                /\ owner' = None
                /\ UNCHANGED db_mentions
           ELSE /\ db_mentions' =
                       InsertOrIgnore(db_mentions, e.id, e.user, e.user, now)
                /\ pc' = [pc EXCEPT ![t] = "m_append"]
                /\ owner' = AfterStoreAwait(t)
                /\ UNCHANGED cur
    /\ UNCHANGED <<running, bot_user_id, processed_mentions,
                   processed_messages, reply, gen_calls, reply_calls, sent,
                   crashed, arrived, dropped, appended>>
    /\ UNCHANGED <<db_messages, conn_open, now, tz, last_op, marked>>
    /\ UNCHANGED aside

\* line 591: self.processed_mentions.append(note_id)
MentionAppend(t) ==
    /\ running /\ pc[t] = "m_append" /\ Runnable(t)
    /\ processed_mentions' =
           DequeAppend(processed_mentions, cur[t], MAX_PROCESSED_ITEMS_CACHE)
    /\ appended' = appended \cup {cur[t]}
    /\ pc' = [pc EXCEPT ![t] = "m_call"]
    /\ owner' = t
    /\ UNCHANGED <<running, bot_user_id, processed_messages, cur, reply,
                   gen_calls, reply_calls, sent, crashed, arrived, dropped>>
    /\ UNCHANGED <<storeVars, aside>>

\* line 597: await self.deepseek.generate_reply(...): the task is suspended
MentionCall(t) ==
    /\ running /\ pc[t] = "m_call" /\ Runnable(t)
    /\ gen_calls' = Bump(gen_calls, cur[t])
    /\ pc' = [pc EXCEPT ![t] = "m_gen"]
    /\ owner' = None
    /\ UNCHANGED <<running, bot_user_id, processed_mentions,
                   processed_messages, cur, reply, reply_calls, sent,
                   crashed, arrived, dropped, appended>>
    /\ UNCHANGED <<storeVars, aside>>

\* lines 597-617: generate_reply returns or raises; the reply is cut to the
\* configured length and create_note is called
MentionGenerated(t, r, text) ==
    /\ running /\ pc[t] = "m_gen" /\ owner = None
    /\ \/ /\ r = "ok"
          /\ reply' = [reply EXCEPT ![t] = Truncate(text, ResponseMaxLength)]
          /\ reply_calls' = Bump(reply_calls, cur[t])
          /\ pc' = [pc EXCEPT ![t] = "m_send"]
          /\ UNCHANGED cur
       \/ /\ r \in {"api", "other"}
          /\ reply' = [reply EXCEPT ![t] = <<>>]
          /\ reply_calls' = Bump(reply_calls, cur[t])
          /\ pc' = [pc EXCEPT ![t] = "m_err"]
          /\ UNCHANGED cur
       \/ /\ r = "value"
          /\ pc' = [pc EXCEPT ![t] = "idle"]
          /\ cur' = [cur EXCEPT ![t] = None]
          /\ UNCHANGED <<reply, reply_calls>>
    /\ UNCHANGED <<running, bot_user_id, processed_mentions,
                   processed_messages, owner, gen_calls, sent, crashed,
                   arrived, dropped, appended>>
    /\ UNCHANGED <<storeVars, aside>>

\* lines 615-621: create_note returns or raises
MentionSent(t, r) ==
    /\ running /\ pc[t] = "m_send" /\ owner = None
    /\ \/ /\ r = "ok"
          /\ sent' = [sent EXCEPT ![cur[t]].reply = @ + 1,
                                  ![cur[t]].text = reply[t]]
          /\ pc' = [pc EXCEPT ![t] = "idle"]
          /\ cur' = [cur EXCEPT ![t] = None]
          /\ reply' = [reply EXCEPT ![t] = <<>>]
          /\ UNCHANGED reply_calls
       \/ /\ r \in {"api", "other"}
          /\ reply' = [reply EXCEPT ![t] = <<>>]
          /\ reply_calls' = Bump(reply_calls, cur[t])
          /\ pc' = [pc EXCEPT ![t] = "m_err"]
          /\ UNCHANGED <<cur, sent>>
       \/ /\ r = "value"
          /\ pc' = [pc EXCEPT ![t] = "idle"]
          /\ cur' = [cur EXCEPT ![t] = None]
          /\ reply' = [reply EXCEPT ![t] = <<>>]
          /\ UNCHANGED <<reply_calls, sent>>
    /\ UNCHANGED <<running, bot_user_id, processed_mentions,
                   processed_messages, owner, gen_calls, crashed, arrived,
                   dropped, appended>>
    /\ UNCHANGED <<storeVars, aside>>

\* _send_error_reply: create_note returns or raises (swallowed)
ErrorReplySent(t, r) ==
    /\ running /\ pc[t] = "m_err" /\ owner = None
    /\ sent' = IF r = "ok"
               THEN [sent EXCEPT ![cur[t]].error = @ + 1]
               ELSE sent
    /\ pc' = [pc EXCEPT ![t] = "idle"]
    /\ cur' = [cur EXCEPT ![t] = None]
    /\ reply' = [reply EXCEPT ![t] = <<>>]
    /\ UNCHANGED <<running, bot_user_id, processed_mentions,
                   processed_messages, owner, gen_calls, reply_calls,
                   crashed, arrived, dropped, appended>>
    /\ UNCHANGED <<storeVars, aside>>

(***************************************************************************)
(* MisskeyBot._handle_message, cut at its awaits.                          *)
(***************************************************************************)
\* lines 659-667: the cache, then the store
EnterHandleMessage(t, e) ==
    IF e.id \in Range(processed_messages) \/ IsProcessed(db_messages, e.id)
    THEN /\ dropped' = dropped \cup {e.id}
         /\ UNCHANGED <<pc, cur, owner>>
    ELSE /\ pc' = [pc EXCEPT ![t] = "g_mark"]
         /\ cur' = [cur EXCEPT ![t] = e.id]
         /\ owner' = AfterStoreAwait(t)
         /\ UNCHANGED dropped

\* _handle_websocket_message, message_type in the chat types
WsMessage(e) ==
    /\ running /\ pc["ws"] = "idle" /\ owner = None
    /\ e \in Messages
    /\ Arrives(e)
    /\ IF e.id \notin Range(processed_messages)
       THEN EnterHandleMessage("ws", e)
       ELSE /\ dropped' = dropped \cup {e.id}
            /\ UNCHANGED <<pc, cur, owner>>
    /\ UNCHANGED <<running, bot_user_id, processed_mentions,
                   processed_messages, reply, gen_calls, reply_calls, sent,
                   crashed, appended>>
    /\ UNCHANGED <<storeVars, aside>>

\* _poll_chat_messages: for message in messages
PollMessage(e) ==
    /\ running /\ pc["poll"] = "idle" /\ owner = None
    /\ e \in Messages
    /\ Arrives(e)
    /\ IF /\ e.id \notin Range(processed_messages)
          /\ ~IsProcessed(db_messages, e.id)
       THEN EnterHandleMessage("poll", e)
       ELSE /\ dropped' = dropped \cup {e.id}
            /\ UNCHANGED <<pc, cur, owner>>
    /\ UNCHANGED <<running, bot_user_id, processed_mentions,
                   processed_messages, reply, gen_calls, reply_calls, sent,
                   crashed, appended>>
    /\ UNCHANGED <<storeVars, aside>>

\* line 687: if self.bot_user_id and user_id == self.bot_user_id
IsOwnMessage(e) == bot_user_id # None /\ e.user = bot_user_id

\* lines 671-695: the sender is parsed, the self check made, and
\* mark_message_processed called on either branch
MessageMark(t) ==
    /\ running /\ pc[t] = "g_mark" /\ Runnable(t)
    /\ LET e == EventOf(cur[t])
       IN  /\ db_messages' =
                  InsertOrIgnore(db_messages, e.id, e.user, "private", now)
           /\ pc' = [pc EXCEPT ![t] =
                        IF IsOwnMessage(e) THEN "g_self" ELSE "g_append"]
    /\ owner' = AfterStoreAwait(t)
    /\ UNCHANGED <<running, bot_user_id, processed_mentions,
                   processed_messages, cur, reply, gen_calls, reply_calls,
                   sent, crashed, arrived, dropped, appended>>
    /\ UNCHANGED <<db_mentions, conn_open, now, tz, last_op, marked>>
    /\ UNCHANGED aside

\* lines 691-692 and 696-705: the cache append; an own message and a message
\* without sender or text end here, the others go on to fetch the history
MessageAppend(t) ==
    /\ running /\ pc[t] \in {"g_self", "g_append"} /\ Runnable(t)
    /\ processed_messages' =
           DequeAppend(processed_messages, cur[t], MAX_PROCESSED_ITEMS_CACHE)
    /\ appended' = appended \cup {cur[t]}
    /\ LET e == EventOf(cur[t])
       IN  IF pc[t] = "g_self" \/ e.user = None \/ ~e.has_text
           THEN /\ pc' = [pc EXCEPT ![t] = "idle"]
                /\ cur' = [cur EXCEPT ![t] = None]
                /\ owner' = None
           ELSE /\ pc' = [pc EXCEPT ![t] = "g_hist"]
                /\ owner' = None
                /\ UNCHANGED cur
    /\ UNCHANGED <<running, bot_user_id, processed_mentions, reply,
                   gen_calls, reply_calls, sent, crashed, arrived, dropped>>
    /\ UNCHANGED <<storeVars, aside>>

\* lines 705-717: _get_chat_history returns (an empty list on any error) and
\* generate_chat_response is called
MessageCall(t) ==
    /\ running /\ pc[t] = "g_hist" /\ owner = None
    /\ gen_calls' = Bump(gen_calls, cur[t])
    /\ pc' = [pc EXCEPT ![t] = "g_gen"]
    /\ UNCHANGED <<running, bot_user_id, processed_mentions,
                   processed_messages, cur, reply, owner, reply_calls, sent,
                   crashed, arrived, dropped, appended>>
    /\ UNCHANGED <<storeVars, aside>>

\* lines 717-725: generate_chat_response returns or raises; the reply is cut
\* to the configured length and send_message is called
MessageGenerated(t, r, text) ==
    /\ running /\ pc[t] = "g_gen" /\ owner = None
    /\ IF r = "ok"
       THEN /\ reply' = [reply EXCEPT ![t] = Truncate(text, ResponseMaxLength)]
            /\ reply_calls' = Bump(reply_calls, cur[t])
            /\ pc' = [pc EXCEPT ![t] = "g_send"]
            /\ UNCHANGED cur
       ELSE \* except Exception: logged only
            /\ pc' = [pc EXCEPT ![t] = "idle"]
            /\ cur' = [cur EXCEPT ![t] = None]
            /\ UNCHANGED <<reply, reply_calls>>
    /\ UNCHANGED <<running, bot_user_id, processed_mentions,
                   processed_messages, owner, gen_calls, sent, crashed,
                   arrived, dropped, appended>>
    /\ UNCHANGED <<storeVars, aside>>

\* lines 725-733: send_message returns or raises (logged only)
MessageSent(t, r) ==
    /\ running /\ pc[t] = "g_send" /\ owner = None
    /\ sent' = IF r = "ok"
               THEN [sent EXCEPT ![cur[t]].reply = @ + 1,
                                 ![cur[t]].text = reply[t]]
               ELSE sent
    /\ pc' = [pc EXCEPT ![t] = "idle"]
    /\ cur' = [cur EXCEPT ![t] = None]
    /\ reply' = [reply EXCEPT ![t] = <<>>]
    /\ UNCHANGED <<running, bot_user_id, processed_mentions,
                   processed_messages, owner, gen_calls, reply_calls,
                   crashed, arrived, dropped, appended>>
    /\ UNCHANGED <<storeVars, aside>>

(***************************************************************************)
(* Specification Spec: the bot from construction on.                       *)
(***************************************************************************)
vars == <<botVars, storeVars, aside>>

\* MisskeyBot.__init__
InitBot ==
    /\ running = FALSE
    /\ bot_user_id = None
    /\ processed_mentions = <<>>
    /\ processed_messages = <<>>
    /\ pc = [t \in Tasks |-> "idle"]
    /\ cur = [t \in Tasks |-> None]
    /\ reply = [t \in Tasks |-> <<>>]
    /\ owner = None
    /\ gen_calls = [i \in Ids |-> 0]
    /\ reply_calls = [i \in Ids |-> 0]
    /\ sent = [i \in Ids |-> [reply |-> 0, error |-> 0, text |-> <<>>]]
    /\ crashed = FALSE
    /\ arrived = {}
    /\ dropped = {}
    /\ appended = {}

Call(op, id, arg, raised, result) ==
    [op |-> op, id |-> id, arg |-> arg, raised |-> raised, result |-> result]
NoCall == Call("none", None, None, FALSE, 0)

\* PersistenceManager.__init__ on a fresh database file
StoreFresh ==
    /\ db_mentions = {}
    /\ db_messages = {}
    /\ conn_open = TRUE
    /\ now = 0
    /\ last_op = NoCall
    /\ marked = [mentions |-> {}, messages |-> {}]

InitStore == StoreFresh /\ tz = 0

\* the components a specification leaves alone
PluginsIdle ==
    /\ plugins = <<>>
    /\ hook_pc = "idle"
    /\ sorted_plugins = <<>>
    /\ invoked = <<>>
    /\ results = <<>>
    /\ hook_log = <<>>

AutoPostIdle ==
    /\ posts_today = 0
    /\ today = 0
    /\ date = 0
    /\ ap_pc = "idle"
    /\ ap_tmp = 0
    /\ max_posts = 0
    /\ since_reset = 0
    /\ cron_due = FALSE
    /\ ap_last = "none"

RetryIdle ==
    /\ r_pc = "idle"
    /\ attempt = 0
    /\ max_retries = 0
    /\ base_delay = 0
    /\ max_delay = 0
    /\ slept = <<>>
    /\ calls = 0

TruncIdle ==
    /\ t_text = <<>>
    /\ t_max = 0
    /\ t_site = None
    /\ t_out = <<>>

RequestIdle ==
    /\ q_pc = "idle"
    /\ q_attempt = 0
    /\ q_max = 0
    /\ q_seen = <<>>
    /\ q_sleeps = 0
    /\ q_error = None

ErrIdle ==
    /\ error_counts = <<>>
    /\ e_site = None
    /\ e_error = None
    /\ e_returned = None
    /\ e_sent = None

StopIdle ==
    /\ ready = <<>>
    /\ task = <<>>
    /\ cancelled = {}
    /\ scheduler_running = FALSE
    /\ stop_pc = "idle"
    /\ closed = {}
    /\ late = {}

FaultIdle ==
    /\ f_src = None
    /\ f_kind = None
    /\ f_batch = <<>>
    /\ f_pos = 0
    /\ f_log = <<>>
    /\ f_loop = "idle"

LoopIdle ==
    /\ ws_pc = "idle"
    /\ reconnect_attempts = 0
    /\ reconnect_delay = 0
    /\ retry_count = 0
    /\ ws_slept = 0
    /\ ws_fails = 0
    /\ poll_pc = "idle"
    /\ l_running = FALSE
    /\ l_cancelled = {}

CacheIdle ==
    /\ c_cap = 0
    /\ c_rows = {}
    /\ c_cache = <<>>
    /\ c_now = 0
    /\ c_evicted = None

JobIdle ==
    /\ j_runs = <<>>
    /\ j_pending = <<>>
    /\ j_last = <<>>

LockIdle ==
    /\ op_pc = <<>>
    /\ lock_holder = None
    /\ lock_waiters = <<>>
    /\ op_last = <<>>

HistIdle ==
    /\ h_stored = <<>>
    /\ h_prompt = ""
    /\ chat_history = <<>>
    /\ h_pc = "idle"

PollIdle ==
    /\ pm_pc = "head"
    /\ pm_retry_count = 0
    /\ pm_base_delay = 0
    /\ pm_delay = 0
    /\ pm_last = "none"
    /\ pm_running = FALSE
    /\ pm_cancelled = FALSE

LifeIdle ==
    /\ lc_running = FALSE
    /\ lc_scheduler = FALSE
    /\ lc_tasks = 0
    /\ lc_alive = <<>>
    /\ lc_cancel = <<>>
    /\ lc_pc = "idle"
    /\ lc_client_open = FALSE
    /\ lc_store_open = FALSE
    /\ lc_last = "none"
    /\ lc_calls = 0

\* both defaults are True
CfgIdle == enabled_kinds = {"mention", "message"}

\* the heartbeat tasks a client may have had at one time
MaxBeats == 3
Beats == 1..MaxBeats

\* the state MisskeyAPI.__init__ leaves
BeatIdle ==
    /\ ws_heartbeat_task = 0
    /\ ws_connection = "none"
    /\ hb_state = [b \in Beats |-> "none"]
    /\ hb_cancel = {}
    /\ hb_connect = "idle"
    /\ hb_close = "idle"
    /\ hb_last = "none"
    /\ hb_pinged = "none"

LaterIdleExcept(group) ==
    /\ group # "beat" => BeatIdle
    /\ group # "cfg" => CfgIdle
    /\ group # "life" => LifeIdle
    /\ group # "poll" => PollIdle
    /\ group # "hist" => HistIdle
    /\ group # "lock" => LockIdle
    /\ group # "job" => JobIdle
    /\ group # "loop" => LoopIdle
    /\ group # "cache" => CacheIdle

LaterIdle == LaterIdleExcept("none")

RestIdle == RequestIdle /\ ErrIdle /\ StopIdle /\ FaultIdle /\ LaterIdle

EarlierIdle ==
    /\ InitBot /\ InitStore
    /\ PluginsIdle /\ AutoPostIdle /\ RetryIdle /\ TruncIdle
    /\ RequestIdle /\ ErrIdle /\ StopIdle /\ FaultIdle

Init ==
    /\ InitBot /\ InitStore
    /\ PluginsIdle /\ AutoPostIdle /\ RetryIdle /\ TruncIdle /\ RestIdle

Next ==
    \/ \E ok \in BOOLEAN : Start(ok)
    \/ Crash
    \/ \E e \in Events : WsMention(e)
    \/ \E e \in Events : PollMention(e)
    \/ \E t \in Tasks : MentionMark(t)
    \/ \E t \in Tasks : MentionAppend(t)
    \/ \E t \in Tasks : MentionCall(t)
    \/ \E t \in Tasks, r \in GenOutcomes, x \in GenTexts :
           MentionGenerated(t, r, x)
    \/ \E t \in Tasks, r \in SendOutcomes : MentionSent(t, r)
    \/ \E t \in Tasks, r \in SendOutcomes : ErrorReplySent(t, r)
    \/ \E e \in Events : WsMessage(e)
    \/ \E e \in Events : PollMessage(e)
    \/ \E t \in Tasks : MessageMark(t)
    \/ \E t \in Tasks : MessageAppend(t)
    \/ \E t \in Tasks : MessageCall(t)
    \/ \E t \in Tasks, r \in GenOutcomes, x \in GenTexts :
           MessageGenerated(t, r, x)
    \/ \E t \in Tasks, r \in SendOutcomes : MessageSent(t, r)

Spec == Init /\ [][Next]_vars

(***************************************************************************)
(* Properties of Spec.                                                     *)
(***************************************************************************)
TableOf(i) ==
    IF EventOf(i).kind = "mention" THEN db_mentions ELSE db_messages
Delivered(i) == sent[i].reply + sent[i].error

Dispatches(i) ==
    \/ gen_calls'[i] > gen_calls[i]
    \/ reply_calls'[i] > reply_calls[i]

C3_ReplayProtection ==
    \A e \in Events :
        e.old => gen_calls[e.id] = 0 /\ reply_calls[e.id] = 0

\* C4 (self-loop prevention): an event whose author is the bot itself causes
\* no generation call and no reply or send call.
C4_SelfLoopPrevention ==
    \A e \in Events :
        e.user = BotId => gen_calls[e.id] = 0 /\ reply_calls[e.id] = 0

\* C17 (durable dedup on every path): an id that has a durable record is
\* taken up by no handler, whichever producer brings it in and whether or not
\* the in-memory cache still holds it; and a completion, reply or send call
\* for an id is made only by a handler that took it up.
C17_DurableDedup ==
    [][\A i \in Ids :
          /\ IsProcessed(TableOf(i), i) =>
                 \A t \in Tasks : cur'[t] = i => cur[t] = i
          /\ Dispatches(i) => \E t \in Tasks : cur[t] = i]_vars

\* n1 was answered in this run of the process, the append of n2 has pushed it
\* out of the cache, and a later delivery of n1 was turned away
C17_Witness ==
    /\ ~crashed /\ running
    /\ sent["n1"].reply = 1
    /\ "n1" \in dropped
    /\ processed_mentions = <<"n2">>
    /\ IsProcessed(db_mentions, "n1")
    /\ \A t \in Tasks : pc[t] = "idle"

\* C20 (terminal state): a handler that has made the completion call for its
\* event ends, unless the process dies, only after a reply or an error
\* reply for that event has been handed to the network client.
C20_TerminalState ==
    [][\A t \in Tasks :
          /\ cur[t] # None /\ gen_calls[cur[t]] > 0
          /\ pc'[t] = "idle" /\ running'
          => reply_calls'[cur[t]] > 0]_vars

HandlerStep(t) ==
    \/ MentionMark(t)
    \/ MentionAppend(t)
    \/ MentionCall(t)
    \/ \E r \in GenOutcomes, x \in GenTexts : MentionGenerated(t, r, x)
    \/ \E r \in SendOutcomes : MentionSent(t, r)
    \/ \E r \in SendOutcomes : ErrorReplySent(t, r)

NextE2E ==
    \/ \E ok \in BOOLEAN : Start(ok)
    \/ \E e \in Events : WsMention(e)
    \/ \E e \in Events : PollMention(e)
    \/ \E t \in Tasks : HandlerStep(t)

SpecE2E ==
    Init /\ [][NextE2E]_vars /\ \A t \in Tasks : SF_vars(HandlerStep(t))

\* x occurs in s as a contiguous piece
Contains(s, x) ==
    \E k \in 0..(Len(s) - Len(x)) : SubSeq(s, k + 1, k + Len(x)) = x

TzOffsets == {-2, 0, 2}

StoreMentionIds == {"n1", "n2"}
StoreMessageIds == {"g1"}
StoreUsers == {"u1", "u2"}

\* a closed manager that answers as if nothing had been stored
AnswersClosed(op, id, arg) ==
    /\ ~conn_open
    /\ last_op' = Call(op, id, arg, FALSE, 0)
    /\ UNCHANGED <<db_mentions, db_messages, marked>>

\* self._connection.cursor() on a closed manager: AttributeError, which no
\* handler of the method catches
RaisesClosed(op, id, arg) ==
    /\ ~conn_open
    /\ last_op' = Call(op, id, arg, TRUE, 0)
    /\ UNCHANGED <<db_mentions, db_messages, marked>>

\* mark_mention_processed(note_id, user_id, username)
MarkMentionProcessed(note_id, user_id) ==
    /\ \/ /\ conn_open
          /\ db_mentions' =
                 InsertOrIgnore(db_mentions, note_id, user_id, user_id, now)
          /\ last_op' = Call("mark_mention", note_id, user_id, FALSE, 0)
          /\ marked' = [marked EXCEPT !.mentions = @ \cup {note_id}]
          /\ UNCHANGED db_messages
       \/ RaisesClosed("mark_mention", note_id, user_id)
    /\ UNCHANGED <<conn_open, now, tz>>
    /\ UNCHANGED <<botVars, aside>>

\* mark_message_processed(message_id, user_id, chat_type)
MarkMessageProcessed(message_id, user_id) ==
    /\ \/ /\ conn_open
          /\ db_messages' =
                 InsertOrIgnore(db_messages, message_id, user_id, "private",
                                now)
          /\ last_op' = Call("mark_message", message_id, user_id, FALSE, 0)
          /\ marked' = [marked EXCEPT !.messages = @ \cup {message_id}]
          /\ UNCHANGED db_mentions
       \/ RaisesClosed("mark_message", message_id, user_id)
    /\ UNCHANGED <<conn_open, now, tz>>
    /\ UNCHANGED <<botVars, aside>>

\* cutoff_date = datetime.now() - timedelta(days=days)
CutoffDate(days) == (now + tz) - days * TicksPerDay

\* DELETE FROM t WHERE processed_at < ?
DeleteBefore(table, cutoff) == {r \in table : ~(r.processed_at < cutoff)}

\* cleanup_old_records(days): both tables, the sum of the two rowcounts
CleanupOldRecords(days) ==
    /\ \/ /\ conn_open
          /\ db_mentions' = DeleteBefore(db_mentions, CutoffDate(days))
          /\ db_messages' = DeleteBefore(db_messages, CutoffDate(days))
          /\ last_op' =
                 Call("cleanup", None, days, FALSE,
                      Cardinality(db_mentions \ db_mentions')
                          + Cardinality(db_messages \ db_messages'))
          /\ marked' =
                 [mentions |-> marked.mentions
                                   \ {r.id : r \in db_mentions \ db_mentions'},
                  messages |-> marked.messages
                                   \ {r.id : r \in db_messages \ db_messages'}]
       \/ RaisesClosed("cleanup", None, days)
    /\ UNCHANGED <<conn_open, now, tz>>
    /\ UNCHANGED <<botVars, aside>>

\* the ids a direct query is made for: those of both kinds
StoreIds == StoreMentionIds \cup StoreMessageIds

\* the limits get_recent_* is called with
RecentLimits == {1, 2}

\* is_mention_processed(note_id): the answer is 1 for True, 0 for False
IsMentionProcessed(note_id) ==
    /\ \/ /\ conn_open
          /\ last_op' =
                 Call("is_mention", note_id, None, FALSE,
                      IF IsProcessed(db_mentions, note_id) THEN 1 ELSE 0)
          /\ UNCHANGED <<db_mentions, db_messages, marked>>
       \/ RaisesClosed("is_mention", note_id, None)
    /\ UNCHANGED <<conn_open, now, tz>>
    /\ UNCHANGED <<botVars, aside>>

\* is_message_processed(message_id)
IsMessageProcessed(message_id) ==
    /\ \/ /\ conn_open
          /\ last_op' =
                 Call("is_message", message_id, None, FALSE,
                      IF IsProcessed(db_messages, message_id) THEN 1 ELSE 0)
          /\ UNCHANGED <<db_mentions, db_messages, marked>>
       \/ RaisesClosed("is_message", message_id, None)
    /\ UNCHANGED <<conn_open, now, tz>>
    /\ UNCHANGED <<botVars, aside>>

\* get_recent_mentions(limit): the answer is the number of rows returned
GetRecentMentions(limit) ==
    /\ \/ /\ conn_open
          /\ \E rows \in RecentRows(db_mentions, limit) :
                 last_op' = Call("recent_mentions", None, limit, FALSE,
                                 Len(rows))
          /\ UNCHANGED <<db_mentions, db_messages, marked>>
       \/ RaisesClosed("recent_mentions", None, limit)
    /\ UNCHANGED <<conn_open, now, tz>>
    /\ UNCHANGED <<botVars, aside>>

\* get_recent_messages(limit)
GetRecentMessages(limit) ==
    /\ \/ /\ conn_open
          /\ \E rows \in RecentRows(db_messages, limit) :
                 last_op' = Call("recent_messages", None, limit, FALSE,
                                 Len(rows))
          /\ UNCHANGED <<db_mentions, db_messages, marked>>
       \/ RaisesClosed("recent_messages", None, limit)
    /\ UNCHANGED <<conn_open, now, tz>>
    /\ UNCHANGED <<botVars, aside>>

\* vacuum() / vacuum_database(): self._connection.execute("VACUUM"); only
\* sqlite3.Error is caught there, the AttributeError of a closed manager is
\* not
VacuumDatabase ==
    /\ \/ /\ conn_open
          /\ last_op' = Call("vacuum", None, None, FALSE, 0)
          /\ UNCHANGED <<db_mentions, db_messages, marked>>
       \/ RaisesClosed("vacuum", None, None)
    /\ UNCHANGED <<conn_open, now, tz>>
    /\ UNCHANGED <<botVars, aside>>

\* close(): the connection is closed and dropped; a second close does nothing
Close ==
    /\ conn_open' = FALSE
    /\ last_op' = Call("close", None, None, FALSE, 0)
    /\ UNCHANGED <<db_mentions, db_messages, now, tz, marked>>
    /\ UNCHANGED <<botVars, aside>>

InitStoreCalls ==
    /\ InitBot
    /\ StoreFresh /\ tz \in TzOffsets
    /\ PluginsIdle /\ AutoPostIdle /\ RetryIdle /\ TruncIdle /\ RestIdle

NextStore ==
    \/ Tick
    \/ \E i \in StoreMentionIds, u \in StoreUsers : MarkMentionProcessed(i, u)
    \/ \E i \in StoreMessageIds, u \in StoreUsers : MarkMessageProcessed(i, u)
    \/ \E d \in 0..MaxDays : CleanupOldRecords(d)
    \/ \E i \in StoreIds : IsMentionProcessed(i)
    \/ \E i \in StoreIds : IsMessageProcessed(i)
    \/ \E n \in RecentLimits : GetRecentMentions(n)
    \/ \E n \in RecentLimits : GetRecentMessages(n)
    \/ VacuumDatabase
    \/ Close

SpecStore == InitStoreCalls /\ [][NextStore]_vars

Age(r) == now - r.processed_at

\* C9 (cleanup retention): after cleanup_old_records(days) every record
\* older than days is gone from both tables, every record newer than days is
\* still there, and the count returned is the number of records removed.
C9_CleanupRetention ==
    [][\A d \in 0..MaxDays :
           CleanupOldRecords(d) /\ conn_open =>
               /\ \A r \in db_mentions :
                      /\ Age(r) > d * TicksPerDay => r \notin db_mentions'
                      /\ Age(r) < d * TicksPerDay => r \in db_mentions'
               /\ \A r \in db_messages :
                      /\ Age(r) > d * TicksPerDay => r \notin db_messages'
                      /\ Age(r) < d * TicksPerDay => r \in db_messages'
               /\ last_op'.result =
                      Cardinality(db_mentions \ db_mentions')
                          + Cardinality(db_messages \ db_messages')
      ]_vars

\* C11 (exact processed-check per kind): on an open store
\* is_mention_processed(id) answers True exactly when id was marked as a
\* mention and cleanup has not removed it since, is_message_processed(id)
\* likewise for messages; an id never marked, or marked only as the other
\* kind, gets False.
C11_ExactProcessedCheck ==
    /\ last_op.op = "is_mention" /\ ~last_op.raised =>
           (last_op.result = 1 <=> last_op.id \in marked.mentions)
    /\ last_op.op = "is_message" /\ ~last_op.raised =>
           (last_op.result = 1 <=> last_op.id \in marked.messages)

\* n1 was marked as a mention, is still there, and is_message_processed(n1)
\* has just answered False
C11_Witness ==
    /\ last_op = Call("is_message", "n1", None, FALSE, 0)
    /\ "n1" \in marked.mentions
    /\ IsProcessed(db_mentions, "n1")
    /\ db_messages # {}

\* C15 (store close): once close() has run, the connection is released and
\* every later call of is_*_processed, mark_*_processed, cleanup_old_records,
\* get_recent_* or vacuum raises instead of giving a result and leaves the
\* tables alone; close() itself, also a second one, does not raise.
C15_StoreClose ==
    /\ [](/\ ~conn_open =>
                 \/ last_op.op = "close" /\ ~last_op.raised
                 \/ last_op.op # "close" /\ last_op.raised
          /\ last_op.op = "close" => ~conn_open /\ ~last_op.raised)
    /\ [][~conn_open =>
              /\ ~conn_open'
              /\ db_mentions' = db_mentions
              /\ db_messages' = db_messages]_vars

\* the store holds a record of n1, was closed, and is_mention_processed(n1)
\* has raised
C15_Witness ==
    /\ ~conn_open
    /\ IsProcessed(db_mentions, "n1")
    /\ last_op = Call("is_mention", "n1", None, TRUE, 0)

(***************************************************************************)
(* Specification SpecPlugin: PluginManager.call_plugin_hook.               *)
(***************************************************************************)
PluginNames == {"p1", "p2"}
\* self.plugins is a dict: it keeps the order in which the plugins were loaded
LoadIndex(p) == IF p = "p1" THEN 1 ELSE 2

\* what a hook may do: return {"handled": True, ...}, return a result that
\* is not handled, return None, raise
HookOutcomes == {"handled", "unhandled", "none", "raises"}

\* sorted([... if plugin.enabled], key=priority, reverse=True): a stable
\* sort, so plugins of equal priority stay in load order
SortedEnabled ==
    LET E == {p \in PluginNames : plugins[p].enabled}
    IN  CHOOSE q \in [1..Cardinality(E) -> E] :
            /\ \A i, j \in DOMAIN q : i # j => q[i] # q[j]
            /\ \A i, j \in DOMAIN q :
                   i < j =>
                       \/ plugins[q[i]].priority > plugins[q[j]].priority
                       \/ /\ plugins[q[i]].priority = plugins[q[j]].priority
                          /\ LoadIndex(q[i]) < LoadIndex(q[j])

\* call_plugin_hook is entered: results = [], the enabled plugins are sorted
CallPluginHook ==
    /\ hook_pc = "idle"
    /\ hook_pc' = "loop"
    /\ sorted_plugins' = SortedEnabled
    /\ invoked' = <<>>
    /\ results' = <<>>
    /\ hook_log' = <<>>
    /\ UNCHANGED plugins
    /\ UNCHANGED <<botVars, storeVars, autoVars, retryVars, truncVars,
                   restVars>>

\* a loop body without a try
ExceptNothing(outcome) == FALSE
\* `except Exception as e` takes what the hook raises
ExceptException(outcome) == outcome = "raises"

\* one turn of `for plugin_name, plugin in sorted_plugins`: the hook is
\* awaited, a result that is not None is appended, an exception is logged
\* under the name of the plugin (one that no clause takes would leave
\* call_plugin_hook)
InvokeHook(outcome) ==
    /\ hook_pc = "loop"
    /\ sorted_plugins # <<>>
    /\ invoked' = Append(invoked, Head(sorted_plugins))
    /\ results' =
           IF outcome \in {"handled", "unhandled"}
           THEN Append(results, [plugin |-> Head(sorted_plugins),
                                 handled |-> (outcome = "handled")])
           ELSE results
    /\ hook_log' =
           IF ExceptException(outcome)
           THEN Append(hook_log, Head(sorted_plugins))
           ELSE hook_log
    /\ sorted_plugins' = Tail(sorted_plugins)
    /\ hook_pc' =
           IF outcome = "raises" /\ ~ExceptException(outcome)
           THEN "raised" ELSE hook_pc
    /\ UNCHANGED plugins
    /\ UNCHANGED <<botVars, storeVars, autoVars, retryVars, truncVars,
                   restVars>>

\* return results
HookReturn ==
    /\ hook_pc = "loop"
    /\ sorted_plugins = <<>>
    /\ hook_pc' = "idle"
    /\ UNCHANGED <<plugins, sorted_plugins, invoked, results, hook_log>>
    /\ UNCHANGED <<botVars, storeVars, autoVars, retryVars, truncVars,
                   restVars>>

\* enable_plugin(name) / disable_plugin(name)
SetEnabled(p, b) ==
    /\ plugins' = [plugins EXCEPT ![p].enabled = b]
    /\ UNCHANGED <<hook_pc, sorted_plugins, invoked, results, hook_log>>
    /\ UNCHANGED <<botVars, storeVars, autoVars, retryVars, truncVars,
                   restVars>>

InitPlugins ==
    /\ InitBot /\ InitStore
    /\ plugins \in [PluginNames ->
                       [priority : 0..MaxPriority, enabled : BOOLEAN]]
    /\ hook_pc = "idle"
    /\ sorted_plugins = <<>>
    /\ invoked = <<>>
    /\ results = <<>>
    /\ hook_log = <<>>
    /\ AutoPostIdle /\ RetryIdle /\ TruncIdle /\ RestIdle

NextPlugin ==
    \/ CallPluginHook
    \/ \E o \in HookOutcomes : InvokeHook(o)
    \/ HookReturn
    \/ \E p \in PluginNames, b \in BOOLEAN : SetEnabled(p, b)

SpecPlugin == InitPlugins /\ [][NextPlugin]_vars

\* where in the order of invocation plugin p was called
InvokedAt(p) == CHOOSE i \in 1..Len(invoked) : invoked[i] = p

\* C5 (plugin precedence): hooks are invoked in descending priority order,
\* and once a plugin has returned handled=true no plugin of lower priority
\* is invoked for that event.
C5_PluginPrecedence ==
    /\ \A i, j \in 1..Len(invoked) :
           i < j => plugins[invoked[i]].priority >= plugins[invoked[j]].priority
    /\ \A k \in 1..Len(results) :
           results[k].handled =>
               \A j \in 1..Len(invoked) :
                   j > InvokedAt(results[k].plugin) =>
                       plugins[invoked[j]].priority
                           >= plugins[results[k].plugin].priority

\* C27 (plugin isolation): a call of the hooks never ends by an exception,
\* each turn of it invokes the next plugin of the list sorted at its entry
\* (the enabled plugins by descending priority) whatever the plugins before
\* it did, it returns only when the list is through, and an exception is
\* logged under the name of the plugin that was just invoked.
C27_PluginIsolation ==
    /\ [](hook_pc # "raised")
    /\ [](\A i, j \in 1..Len(invoked) :
              i < j =>
                  plugins[invoked[i]].priority >= plugins[invoked[j]].priority)
    /\ [][/\ (hook_pc = "idle" /\ hook_pc' = "loop") =>
                  Range(sorted_plugins') =
                      {p \in PluginNames : plugins[p].enabled}
          /\ (hook_pc = "loop" /\ hook_pc' = "loop") =>
                  invoked' \o sorted_plugins' = invoked \o sorted_plugins
          /\ (hook_pc = "loop" /\ hook_pc' # "loop") =>
                  sorted_plugins = <<>>
          /\ (hook_pc = "loop" /\ hook_log' # hook_log) =>
                  hook_log' = Append(hook_log, Head(sorted_plugins))]_vars

\* the hook of p1 raised, the hook of p2 was invoked after it and returned
\* a result, and the call has returned
C27_Witness ==
    /\ hook_pc = "idle"
    /\ invoked = <<"p1", "p2">>
    /\ hook_log = <<"p1">>
    /\ results = <<[plugin |-> "p2", handled |-> FALSE]>>

(***************************************************************************)
(* Specification SpecAuto: the interval job _auto_post and the midnight    *)
(* cron job _reset_daily_post_count.  The scheduler runs _auto_post as a   *)
(* task on the event loop, one instance at a time; the reset, which is no  *)
(* coroutine, runs in a worker thread and may fall between any two         *)
(* instructions of _auto_post.                                             *)
(***************************************************************************)
\* a cap check that lets one post too many through
CapReachedOffByOne(posts, cap) == posts > cap

\* if self.posts_today >= max_posts: return
CapReached(posts, cap) == posts >= cap

\* _auto_post up to its first await: the date check (with the reset it may
\* call), then the cap check
AutoPostFire ==
    /\ ap_pc = "idle"
    /\ LET posts == IF date # today THEN 0 ELSE posts_today
       IN  /\ posts_today' = posts
           /\ today' = date
           /\ since_reset' = IF date # today THEN 0 ELSE since_reset
           /\ IF CapReached(posts, max_posts)
              THEN ap_pc' = "idle" /\ ap_last' = "skipped"
              ELSE ap_pc' = "gen" /\ ap_last' = "started"
    /\ UNCHANGED <<date, ap_tmp, max_posts, cron_due>>
    /\ UNCHANGED <<botVars, storeVars, pluginVars, retryVars, truncVars,
                   restVars>>

\* generate_post returns (the text is cut and create_note is called) or
\* raises (logged)
AutoGenerated(ok) ==
    /\ ap_pc = "gen"
    /\ ap_pc' = IF ok THEN "post" ELSE "idle"
    /\ UNCHANGED <<posts_today, today, date, ap_tmp, max_posts, since_reset,
                   cron_due, ap_last>>
    /\ UNCHANGED <<botVars, storeVars, pluginVars, retryVars, truncVars,
                   restVars>>

\* create_note returns, and self.posts_today is read for `+= 1`, or raises
AutoPosted(ok) ==
    /\ ap_pc = "post"
    /\ IF ok
       THEN /\ since_reset' = since_reset + 1
            /\ ap_tmp' = posts_today
            /\ ap_pc' = "inc"
       ELSE /\ ap_pc' = "idle"
            /\ UNCHANGED <<since_reset, ap_tmp>>
    /\ UNCHANGED <<posts_today, today, date, max_posts, cron_due, ap_last>>
    /\ UNCHANGED <<botVars, storeVars, pluginVars, retryVars, truncVars,
                   restVars>>

\* the store of `self.posts_today += 1`
AutoCounted ==
    /\ ap_pc = "inc"
    /\ posts_today' = ap_tmp + 1
    /\ ap_pc' = "idle"
    /\ UNCHANGED <<today, date, ap_tmp, max_posts, since_reset, cron_due,
                   ap_last>>
    /\ UNCHANGED <<botVars, storeVars, pluginVars, retryVars, truncVars,
                   restVars>>

\* midnight: the date advances and the cron job becomes due
DayRollover ==
    /\ date < MaxDate
    /\ date' = date + 1
    /\ cron_due' = TRUE
    /\ UNCHANGED <<posts_today, today, ap_pc, ap_tmp, max_posts, since_reset,
                   ap_last>>
    /\ UNCHANGED <<botVars, storeVars, pluginVars, retryVars, truncVars,
                   restVars>>

\* _reset_daily_post_count, run by the cron job
ResetDailyPostCount ==
    /\ cron_due
    /\ cron_due' = FALSE
    /\ posts_today' = 0
    /\ today' = date
    /\ since_reset' = 0
    /\ UNCHANGED <<date, ap_pc, ap_tmp, max_posts, ap_last>>
    /\ UNCHANGED <<botVars, storeVars, pluginVars, retryVars, truncVars,
                   restVars>>

\* the process is started anew: MisskeyBot.__init__ sets the counter to 0
\* and the day to the current date (the counter is kept in memory only)
AutoRestart ==
    /\ posts_today' = 0
    /\ today' = date
    /\ since_reset' = 0
    /\ ap_pc' = "idle"
    /\ ap_last' = "none"
    /\ UNCHANGED <<date, ap_tmp, max_posts, cron_due>>
    /\ UNCHANGED <<botVars, storeVars, pluginVars, retryVars, truncVars,
                   restVars>>

InitAuto ==
    /\ InitBot /\ InitStore /\ PluginsIdle
    /\ posts_today = 0
    /\ today = 0
    /\ date = 0
    /\ ap_pc = "idle"
    /\ ap_tmp = 0
    /\ max_posts \in 0..MaxCap
    /\ since_reset = 0
    /\ cron_due = FALSE
    /\ ap_last = "none"
    /\ RetryIdle /\ TruncIdle /\ RestIdle

NextAuto ==
    \/ AutoPostFire
    \/ \E ok \in BOOLEAN : AutoGenerated(ok)
    \/ \E ok \in BOOLEAN : AutoPosted(ok)
    \/ AutoCounted
    \/ DayRollover
    \/ ResetDailyPostCount
    \/ AutoRestart

SpecAuto == InitAuto /\ [][NextAuto]_vars

\* C6 (daily cap): the counter of the current day never exceeds the cap, no
\* more posts than the cap succeed between two resets, and a firing gets as
\* far as generating or posting only while the counter is below the cap, so
\* a firing at the cap makes no create_note call.
C6_DailyCap ==
    /\ posts_today <= max_posts
    /\ since_reset <= max_posts
    /\ ap_pc \in {"gen", "post"} => posts_today < max_posts

\* the cap of MaxCap posts has been reached on the current day and the
\* firing that followed was skipped
C6_Witness ==
    /\ max_posts = MaxCap
    /\ posts_today = max_posts
    /\ since_reset = max_posts
    /\ today = date
    /\ ap_last = "skipped"
    /\ ap_pc = "idle"

\* C29 (the daily counter changes only on success or rollover): a step
\* that changes posts_today either adds exactly one, at the end of a run
\* whose create_note succeeded, or sets it to zero together with the tracked
\* day becoming the current date; the tracked day changes in no other way.
C29_CounterFrame ==
    [][/\ (posts_today' # posts_today) =>
              \/ ap_pc = "inc" /\ posts_today' = posts_today + 1
              \/ posts_today' = 0 /\ today' = date
       /\ (today' # today) => (posts_today' = 0 /\ today' = date)]_vars

(***************************************************************************)
(* Specification SpecRetry: the wrapper of retry_async.  Delays are in     *)
(* units of 1/40 s, so that 0.1 s is 4 and a quarter of every delay is a   *)
(* whole number.                                                           *)
(***************************************************************************)
\* backoff_factor: float = 2.0
BackoffFactor == 2
\* max(0.1, delay + jitter)
MinSleep == 4
\* base_delay = 1.0; max_delay = 2.0 or the default 60.0
BaseDelays == {40}
MaxDelays == {80, 2400}
\* 0.25 * (2 * random.random() - 1), in eighths, for random() = 0, 1/4,
\* 1/2, 3/4
JitterEighths == {-2, -1, 0, 1}

RECURSIVE Power(_, _)
Power(b, n) == IF n = 0 THEN 1 ELSE b * Power(b, n - 1)

\* delay = min(base_delay * backoff_factor ** attempt, max_delay)
\* jitter = delay * 0.25 * (2 * random.random() - 1)
\* max(0.1, delay + jitter)
CalculateRetryDelay(n, base, cap, eighths) ==
    LET delay == Min(base * Power(BackoffFactor, n), cap)
        jitter == (delay * eighths) \div 8
    IN  Max(MinSleep, delay + jitter)

\* the wrapper is entered: last_error = None; for attempt in range(max_retries)
\* (with max_retries = 0 the loop is empty and `raise last_error` fails)
RetryEnter ==
    /\ r_pc = "idle"
    /\ attempt' = 0
    /\ r_pc' = IF max_retries = 0 THEN "raised" ELSE "call"
    /\ UNCHANGED <<max_retries, base_delay, max_delay, slept, calls>>
    /\ UNCHANGED <<botVars, storeVars, pluginVars, autoVars, truncVars,
                   restVars>>

\* await func(...): it returns, raises an exception that is not retryable,
\* or raises a retryable one; after the last attempt the loop ends and the
\* last error is raised, otherwise the delay is computed and slept
RetryAttempt(outcome, eighths) ==
    /\ r_pc = "call"
    /\ calls' = calls + 1
    /\ \/ /\ outcome = "ok"
          /\ r_pc' = "returned"
          /\ UNCHANGED slept
       \/ /\ outcome = "fatal"
          /\ r_pc' = "raised"
          /\ UNCHANGED slept
       \/ /\ outcome = "retryable"
          /\ IF attempt < max_retries - 1
             THEN /\ slept' = Append(slept,
                                     CalculateRetryDelay(attempt, base_delay,
                                                         max_delay, eighths))
                  /\ r_pc' = "sleep"
             ELSE /\ r_pc' = "raised"
                  /\ UNCHANGED slept
    /\ UNCHANGED <<attempt, max_retries, base_delay, max_delay>>
    /\ UNCHANGED <<botVars, storeVars, pluginVars, autoVars, truncVars,
                   restVars>>

\* asyncio.sleep returns: the next turn of the loop
RetryWake ==
    /\ r_pc = "sleep"
    /\ attempt' = attempt + 1
    /\ r_pc' = "call"
    /\ UNCHANGED <<max_retries, base_delay, max_delay, slept, calls>>
    /\ UNCHANGED <<botVars, storeVars, pluginVars, autoVars, truncVars,
                   restVars>>

InitRetry ==
    /\ InitBot /\ InitStore /\ PluginsIdle /\ AutoPostIdle
    /\ r_pc = "idle"
    /\ attempt = 0
    /\ max_retries \in 0..MaxRetries
    /\ base_delay \in BaseDelays
    /\ max_delay \in MaxDelays
    /\ slept = <<>>
    /\ calls = 0
    /\ TruncIdle /\ RestIdle

NextRetry ==
    \/ RetryEnter
    \/ \E o \in {"ok", "fatal", "retryable"}, e \in JitterEighths :
           RetryAttempt(o, e)
    \/ RetryWake

SpecRetry == InitRetry /\ [][NextRetry]_vars

\* C7 (backoff bounds): through a run of retryable failures the delays slept
\* do not decrease until they reach max_delay and never exceed max_delay,
\* and no more than max_retries attempts are made.
C7_BackoffBounds ==
    /\ \A i \in 1..Len(slept) : slept[i] <= max_delay
    /\ \A i \in 1..Len(slept) - 1 :
           slept[i] < max_delay => slept[i] <= slept[i + 1]
    /\ calls <= max_retries

(***************************************************************************)
(* Specification SpecTrunc: the length limit at the three sites that       *)
(* deliver a generated text.                                               *)
(***************************************************************************)
Chars == {"a", "."}
Texts == UNION {[1..n -> Chars] : n \in 0..MaxTextLen}

\* _handle_mention: max_response_length, then create_note(reply, reply_id)
DeliverMentionReply ==
    /\ t_site = None
    /\ t_out' = Truncate(t_text, t_max)
    /\ t_site' = "mention"
    /\ UNCHANGED <<t_text, t_max>>
    /\ UNCHANGED <<botVars, storeVars, pluginVars, autoVars, retryVars,
                   restVars>>

\* _handle_message: max_response_length, then send_message(user_id, reply)
DeliverMessageReply ==
    /\ t_site = None
    /\ t_out' = Truncate(t_text, t_max)
    /\ t_site' = "message"
    /\ UNCHANGED <<t_text, t_max>>
    /\ UNCHANGED <<botVars, storeVars, pluginVars, autoVars, retryVars,
                   restVars>>

\* _auto_post: max_post_length, then create_note(post_content)
DeliverAutoPost ==
    /\ t_site = None
    /\ t_out' = Truncate(t_text, t_max)
    /\ t_site' = "auto_post"
    /\ UNCHANGED <<t_text, t_max>>
    /\ UNCHANGED <<botVars, storeVars, pluginVars, autoVars, retryVars,
                   restVars>>

InitTrunc ==
    /\ InitBot /\ InitStore /\ PluginsIdle /\ AutoPostIdle /\ RetryIdle
    /\ t_text \in Texts
    /\ t_max \in 0..MaxLength
    /\ t_site = None
    /\ t_out = <<>>
    /\ RestIdle

NextTrunc ==
    \/ DeliverMentionReply
    \/ DeliverMessageReply
    \/ DeliverAutoPost

SpecTrunc == InitTrunc /\ [][NextTrunc]_vars

\* C10 (truncation): a generated text longer than the configured maximum L
\* is delivered with exactly L characters, the last three being "...", a
\* text of at most L characters is delivered unchanged, and nothing
\* delivered is longer than L.
C10_Truncation ==
    t_site # None =>
        /\ Len(t_text) > t_max =>
               /\ Len(t_out) = t_max
               /\ Len(t_out) >= 3
               /\ SubSeq(t_out, Len(t_out) - 2, Len(t_out)) = Ellipsis
        /\ Len(t_text) <= t_max => t_out = t_text
        /\ Len(t_out) <= t_max

(***************************************************************************)
(* Specification SpecRequest: one call of MisskeyAPI._make_request.  An    *)
(* attempt is answered with HTTP 200, 401, 429, a 5xx status that          *)
(* _is_retryable_error accepts, another error status (400, 403, 404, ...), *)
(* a network error, or a TypeError/KeyError while the answer is handled.   *)
(***************************************************************************)
Responses == {"200", "401", "429", "5xx", "4xx", "network", "invalid"}

\* the answers that are final, not to be retried: authentication failure,
\* an error status outside the retryable set, malformed request or validation
NonRetryable == {"401", "4xx", "invalid"}

\* the except clause that takes the exception raised for an answer:
\* "raise" re-raises it to the caller, "retry" records it as last_error and
\* goes on.  AuthenticationError and ValueError reach the clause
\* `except (AuthenticationError, ValueError): raise`; the
\* APIConnectionError raised for another error status is no ClientError, no
\* ConnectionError and no OSError, and lands in `except Exception`.
ExceptClause(resp) ==
    IF resp \in {"401", "invalid"} THEN "raise" ELSE "retry"

\* a client that reports every failure as a connection failure
ErrorOfConnection(resp) == "APIConnectionError"
\* the error class the caller sees for an answer
ErrorOf(resp) ==
    CASE resp = "401" -> "AuthenticationError"
      [] resp = "invalid" -> "ValueError"
      [] resp = "429" -> "APIRateLimitError"
      [] OTHER -> "APIConnectionError"

\* the request is made: for attempt in range(self.max_retries); with
\* max_retries = 0 the loop is empty and APIConnectionError is raised
MakeRequestEnter ==
    /\ q_pc = "idle"
    /\ q_attempt' = 0
    /\ IF q_max = 0
       THEN q_pc' = "raised" /\ q_error' = "APIConnectionError"
       ELSE q_pc' = "call" /\ q_error' = None
    /\ UNCHANGED <<q_max, q_seen, q_sleeps>>
    /\ UNCHANGED <<botVars, storeVars, pluginVars, autoVars, retryVars,
                   truncVars, errVars, stopVars, faultVars, laterVars>>

\* session.post(...) is answered
MakeRequestAttempt(resp) ==
    /\ q_pc = "call"
    /\ q_seen' = Append(q_seen, resp)
    /\ IF resp = "200"
       THEN q_pc' = "returned" /\ UNCHANGED <<q_sleeps, q_error>>
       ELSE IF ExceptClause(resp) = "raise"
       THEN /\ q_pc' = "raised"
            /\ q_error' = ErrorOf(resp)
            /\ UNCHANGED q_sleeps
       ELSE IF q_attempt < q_max - 1
       THEN \* await asyncio.sleep(self._calculate_retry_delay(attempt))
            /\ q_pc' = "sleep"
            /\ q_sleeps' = q_sleeps + 1
            /\ UNCHANGED q_error
       ELSE \* the loop is over: raise last_error
            /\ q_pc' = "raised"
            /\ q_error' = ErrorOf(resp)
            /\ UNCHANGED q_sleeps
    /\ UNCHANGED <<q_attempt, q_max>>
    /\ UNCHANGED <<botVars, storeVars, pluginVars, autoVars, retryVars,
                   truncVars, errVars, stopVars, faultVars, laterVars>>

\* asyncio.sleep returns: the next turn of the loop
MakeRequestWake ==
    /\ q_pc = "sleep"
    /\ q_attempt' = q_attempt + 1
    /\ q_pc' = "call"
    /\ UNCHANGED <<q_max, q_seen, q_sleeps, q_error>>
    /\ UNCHANGED <<botVars, storeVars, pluginVars, autoVars, retryVars,
                   truncVars, errVars, stopVars, faultVars, laterVars>>

InitRequest ==
    /\ InitBot /\ InitStore
    /\ PluginsIdle /\ AutoPostIdle /\ RetryIdle /\ TruncIdle
    /\ q_pc = "idle"
    /\ q_attempt = 0
    /\ q_max \in 0..MaxRetries
    /\ q_seen = <<>>
    /\ q_sleeps = 0
    /\ q_error = None
    /\ ErrIdle /\ StopIdle /\ FaultIdle /\ LaterIdle

NextRequest ==
    \/ MakeRequestEnter
    \/ \E resp \in Responses : MakeRequestAttempt(resp)
    \/ MakeRequestWake

SpecRequest == InitRequest /\ [][NextRequest]_vars

\* C13 (non-retryable failures propagate at once): an attempt answered with
\* an authentication failure, a non-retryable error status or a validation
\* failure is the last attempt of the call: the error is raised to the
\* caller on that attempt, with no sleep after it.
C13_NonRetryablePropagates ==
    \A i \in 1..Len(q_seen) :
        q_seen[i] \in NonRetryable =>
            /\ i = Len(q_seen)
            /\ q_pc = "raised"
            /\ q_sleeps = i - 1

\* C26 (retry exhaustion): no attempt is made beyond the cap, and a call
\* whose attempts up to the cap were all answered with a rate limit, a
\* retryable status or a network error raises the error of its last
\* attempt: APIRateLimitError after a rate limit, APIConnectionError after
\* the others.
C26_RetryExhaustion ==
    /\ Len(q_seen) <= q_max
    /\ (/\ q_pc = "raised" /\ q_max > 0 /\ Len(q_seen) = q_max
        /\ \A i \in 1..Len(q_seen) : q_seen[i] \in {"429", "5xx", "network"})
       => q_error = IF q_seen[Len(q_seen)] = "429"
                    THEN "APIRateLimitError"
                    ELSE "APIConnectionError"

\* three attempts of three have failed, the last one with a rate limit
C26_Witness ==
    /\ q_max = 3
    /\ q_seen = <<"5xx", "network", "429">>
    /\ q_pc = "raised"
    /\ q_error = "APIRateLimitError"

\* C37 (every request makes at least one attempt): whatever cap the
\* constructor accepted, 0 included, a call that reports a failure to its
\* caller has made at least one attempt, and the failure is one of the
\* client's error classes.
C37_AtLeastOneAttempt ==
    q_pc = "raised" =>
        /\ Len(q_seen) >= 1
        /\ q_error \in {"AuthenticationError", "ValueError",
                        "APIRateLimitError", "APIConnectionError"}

(***************************************************************************)
(* Specification SpecErr: what the user is sent when generation or         *)
(* delivery fails for an admitted event.  A text is named by what it says: *)
(* "too_many_requests", "misconfigured", "unavailable", "invalid_request", *)
(* "resource_exhausted", "apology", "send_failed".                         *)
(***************************************************************************)
\* the classes of exception a handler may meet
ErrorTypes ==
    {"APIRateLimitError", "AuthenticationError", "APIConnectionError",
     "ValueError", "RuntimeError", "Exception"}

\* the places where an upstream call of a handler fails
FailureSites == {"mention_gen", "mention_send", "message_gen", "message_send"}

\* _handle_error: the user-friendly message it returns
HandleError(error) ==
    CASE error = "APIRateLimitError" -> "too_many_requests"
      [] error = "AuthenticationError" -> "misconfigured"
      [] error = "APIConnectionError" -> "unavailable"
      [] error = "ValueError" -> "invalid_request"
      [] error = "RuntimeError" -> "resource_exhausted"
      [] OTHER -> "apology"

\* the text the handler passes to _send_error_reply for a failure at a site
\* (None: nothing is sent).  _handle_mention picks its own texts and drops
\* what _handle_error returned; _handle_message only logs.
ErrorReplyText(site, error) ==
    LET api == error \in {"APIRateLimitError", "AuthenticationError",
                          "APIConnectionError"}
    IN  CASE site = "mention_gen" /\ error = "APIRateLimitError" ->
                 "too_many_requests"
          [] site = "mention_gen" /\ error = "AuthenticationError" ->
                 "misconfigured"
          [] site = "mention_gen" /\ error = "APIConnectionError" ->
                 "unavailable"
          [] site = "mention_send" /\ api -> "send_failed"
          [] site \in {"mention_gen", "mention_send"}
                 /\ error = "ValueError" -> None
          [] site \in {"mention_gen", "mention_send"} /\ ~api
                 /\ error # "ValueError" -> "apology"
          [] OTHER -> None

\* an upstream call of a handler raises: _handle_error counts the class (in
\* _handle_mention only) and the handler sends its text, if it sends one
FailAt(site, error) ==
    /\ e_site' = site
    /\ e_error' = error
    /\ IF site \in {"mention_gen", "mention_send"}
       THEN /\ error_counts[error] < MaxErrors
            /\ error_counts' = [error_counts EXCEPT ![error] = @ + 1]
            /\ e_returned' = HandleError(error)
       ELSE /\ e_returned' = None
            /\ UNCHANGED error_counts
    /\ e_sent' = ErrorReplyText(site, error)
    /\ UNCHANGED <<botVars, storeVars, pluginVars, autoVars, retryVars,
                   truncVars, requestVars, stopVars, faultVars, laterVars>>

InitErr ==
    /\ InitBot /\ InitStore
    /\ PluginsIdle /\ AutoPostIdle /\ RetryIdle /\ TruncIdle /\ RequestIdle
    /\ StopIdle /\ FaultIdle /\ LaterIdle
    /\ error_counts = [x \in ErrorTypes |-> 0]
    /\ e_site = None
    /\ e_error = None
    /\ e_returned = None
    /\ e_sent = None

NextErr == \E site \in FailureSites, error \in ErrorTypes : FailAt(site, error)

SpecErr == InitErr /\ [][NextErr]_vars

\* C14 (error-to-user mapping): after a failure of generation or delivery
\* for an admitted event the text sent to the user is the one of the error's
\* category: rate limit, authentication, upstream unreachable, validation,
\* and the generic apology for anything else.
C14_ErrorToUserMapping ==
    e_site # None =>
        e_sent = CASE e_error = "APIRateLimitError" -> "too_many_requests"
                   [] e_error = "AuthenticationError" -> "misconfigured"
                   [] e_error = "APIConnectionError" -> "unavailable"
                   [] e_error = "ValueError" -> "invalid_request"
                   [] OTHER -> "apology"

(***************************************************************************)
(* Shutdown.  The tasks of the event loop: "ws" and "poll" are the two     *)
(* producers start() creates and keeps in self.tasks (a handler in flight  *)
(* runs inside its producer's task); "job" is a task a scheduler job       *)
(* creates with asyncio.create_task (cleanup, vacuum) and nobody keeps;    *)
(* "auto" is the coroutine job _auto_post, which the scheduler's executor  *)
(* runs as a task; "stop" is the task that runs stop().  The loop runs the *)
(* tasks of its ready queue in the order they were put there, each up to   *)
(* its next await.  A store call never suspends, so a "job" task is one    *)
(* step; the other tasks wait for the network between steps.               *)
(* cancel() on a task makes its next step raise CancelledError, which the  *)
(* loops answer with break and `except Exception` does not catch.          *)
(* scheduler.shutdown() fires no further job and cancels the coroutine job *)
(* its executor is running.                                                *)
(***************************************************************************)
Workers == {"ws", "poll", "job", "auto"}

\* a stop() that cancels and awaits no task
TrackedNone == {}
\* self.tasks after start()
Tracked == {"ws", "poll"}

\* the shared resources a task operates on
Uses(t) ==
    CASE t = "job" -> {"store"}
      [] t = "auto" -> {"client"}
      [] OTHER -> {"client", "store"}

Live(t) == task[t] \in {"ready", "wait"}

\* a scheduler job fires and a task is created for it, or a signal creates
\* the task that runs stop()
CreateTask(t) ==
    /\ t \in {"job", "auto", "stop"}
    /\ ~Live(t)
    /\ IF t = "stop" THEN stop_pc = "idle" /\ task[t] = "none"
                     ELSE scheduler_running
    /\ task' = [task EXCEPT ![t] = "ready"]
    /\ ready' = Append(ready, t)
    /\ UNCHANGED <<cancelled, scheduler_running, stop_pc, closed, late>>
    /\ UNCHANGED <<botVars, storeVars, pluginVars, autoVars, retryVars,
                   truncVars, requestVars, errVars, faultVars, laterVars>>

\* the loop runs the next step of a producer or of a job's task
RunWorker(t) ==
    /\ ready # <<>> /\ Head(ready) = t /\ t \in Workers
    /\ ready' = Tail(ready)
    /\ IF t \in cancelled
       THEN /\ task' = [task EXCEPT ![t] = "done"]
            /\ late' = late
       ELSE \E res \in Uses(t),
               nxt \in IF t = "job" THEN {"done"} ELSE {"wait", "done"} :
                /\ task' = [task EXCEPT ![t] = nxt]
                /\ late' = IF res \in closed THEN late \cup {<<t, res>>}
                                             ELSE late
    /\ UNCHANGED <<cancelled, scheduler_running, stop_pc, closed>>
    /\ UNCHANGED <<botVars, storeVars, pluginVars, autoVars, retryVars,
                   truncVars, requestVars, errVars, faultVars, laterVars>>

\* what a waiting task waits for is there: a network answer for a worker
\* and for the client's close, the end of every task of self.tasks for
\* the gather of stop()
Wake(t) ==
    /\ task[t] = "wait"
    /\ t = "stop" /\ stop_pc = "gather" =>
           \A u \in Tracked : task[u] = "done"
    /\ task' = [task EXCEPT ![t] = "ready"]
    /\ ready' = Append(ready, t)
    /\ UNCHANGED <<cancelled, scheduler_running, stop_pc, closed, late>>
    /\ UNCHANGED <<botVars, storeVars, pluginVars, autoVars, retryVars,
                   truncVars, requestVars, errVars, faultVars, laterVars>>

\* the loop runs the next step of stop()
RunStop ==
    /\ ready # <<>> /\ Head(ready) = "stop"
    /\ CASE stop_pc = "idle" ->
            LET hit == {t \in Tracked \cup {"auto"} : Live(t)}
                woken == SelectSeq(<<"auto", "ws", "poll">>,
                             LAMBDA t : t \in hit /\ task[t] = "wait")
            IN  /\ scheduler_running' = FALSE
                /\ cancelled' = cancelled \cup hit
                /\ task' = [t \in DOMAIN task |->
                               IF t = "stop" THEN "wait"
                               ELSE IF t \in hit THEN "ready" ELSE task[t]]
                /\ ready' = Tail(ready) \o woken
                /\ stop_pc' = "gather"
                /\ closed' = closed
         [] stop_pc = "gather" ->
                /\ closed' = closed \cup {"client"}
                /\ task' = [task EXCEPT !["stop"] = "wait"]
                /\ ready' = Tail(ready)
                /\ stop_pc' = "client"
                /\ UNCHANGED <<scheduler_running, cancelled>>
         [] stop_pc = "client" ->
                /\ closed' = closed \cup {"store"}
                /\ task' = [task EXCEPT !["stop"] = "done"]
                /\ ready' = Tail(ready)
                /\ stop_pc' = "closed"
                /\ UNCHANGED <<scheduler_running, cancelled>>
    /\ late' = late
    /\ UNCHANGED <<botVars, storeVars, pluginVars, autoVars, retryVars,
                   truncVars, requestVars, errVars, faultVars, laterVars>>

\* the state start() leaves: the scheduler started, the two producers
\* created in this order
InitStop ==
    /\ InitBot /\ InitStore
    /\ PluginsIdle /\ AutoPostIdle /\ RetryIdle /\ TruncIdle /\ RequestIdle
    /\ ErrIdle /\ FaultIdle /\ LaterIdle
    /\ ready = <<"ws", "poll">>
    /\ task = [t \in Workers \cup {"stop"} |->
                  IF t \in {"ws", "poll"} THEN "ready" ELSE "none"]
    /\ cancelled = {}
    /\ scheduler_running = TRUE
    /\ stop_pc = "idle"
    /\ closed = {}
    /\ late = {}

NextStop ==
    \/ \E t \in {"job", "auto", "stop"} : CreateTask(t)
    \/ \E t \in Workers : RunWorker(t)
    \/ \E t \in Workers \cup {"stop"} : Wake(t)
    \/ RunStop

SpecStop == InitStop /\ [][NextStop]_vars

Faults == {"none", "no_id", "check_raises", "mark_fails", "gen_fails"}

\* mark_mention_processed / mark_message_processed: `except sqlite3.Error`
\* logs, rolls back and lets the method return as after a write
Mark(fault) == IF fault = "mark_fails" THEN "write_error" ELSE "mark"

\* a processed-check that answers "not processed" when the store fails
CheckFailsOpen(fault) == "absent"

\* is_mention_processed / is_message_processed for a new id: no except
\* clause, whatever the connection raises leaves the method
Check(fault) == IF fault = "check_raises" THEN "raise" ELSE "absent"

\* a dispatch that does not look at the configuration
ResponseEnabledAlways(kind) == TRUE
\* self.config.get("bot.response.mention_enabled", True), and the same for
\* chat_enabled
ResponseEnabled(kind) == kind \in enabled_kinds

\* what is done for one event, and whether an exception leaves the body of
\* the producer's loop
HandleEvent(src, kind, fault) ==
    IF ~ResponseEnabled(kind)
    THEN \* _handle_websocket_message: the frame is logged and left
         [log |-> {"seen"}, escapes |-> FALSE]
    ELSE IF fault = "no_id"
    THEN \* polled mentions are indexed with ["id"]: KeyError; the other
         \* paths use .get("id") and skip the event
         [log |-> {"seen"}, escapes |-> (src = "poll" /\ kind = "mention")]
    ELSE IF Check(fault) = "raise"
    THEN [log |-> {"seen", "store_error"}, escapes |-> TRUE]
    ELSE [log |-> {"seen", "check", Mark(fault), "cache", "generate"}
                  \cup (IF fault = "check_raises" THEN {"store_error"}
                                                  ELSE {})
                  \cup (IF fault # "gen_fails" THEN {"reply"}
                        ELSE IF kind = "mention" THEN {"error_reply"}
                        ELSE {}),
          escapes |-> FALSE]

\* a frame arrives on the stream, or a poll request returns its list (a
\* poll cycle makes no request for a kind that is not enabled)
Deliver(src, kind, batch) ==
    /\ f_loop = "idle"
    /\ src = "ws" => Len(batch) = 1
    /\ src = "poll" => ResponseEnabled(kind)
    /\ f_src' = src
    /\ f_kind' = kind
    /\ f_batch' = batch
    /\ f_pos' = 1
    /\ f_log' = [i \in 1..Len(batch) |-> {}]
    /\ f_loop' = "batch"
    /\ UNCHANGED <<botVars, storeVars, pluginVars, autoVars, retryVars,
                   truncVars, requestVars, errVars, stopVars, laterVars>>

\* the producer takes the next event.  An exception that leaves the body is
\* caught by _handle_websocket_message (stream), by the try of
\* _poll_chat_messages (chat messages: the poll cycle goes on without the
\* rest of the list) or by the try of _poll_mentions (mentions: the cycle
\* ends there and the loop sleeps before the next one)
HandleNext ==
    /\ f_loop = "batch"
    /\ LET h == HandleEvent(f_src, f_kind, f_batch[f_pos])
       IN  /\ f_log' = [f_log EXCEPT ![f_pos] = h.log]
           /\ IF h.escapes
              THEN /\ f_pos' = f_pos
                   /\ f_loop' = IF f_src = "poll" /\ f_kind = "mention"
                                THEN "sleep" ELSE "idle"
              ELSE /\ f_pos' = f_pos + 1
                   /\ f_loop' = IF f_pos = Len(f_batch) THEN "idle"
                                ELSE "batch"
    /\ UNCHANGED <<f_src, f_kind, f_batch>>
    /\ UNCHANGED <<botVars, storeVars, pluginVars, autoVars, retryVars,
                   truncVars, requestVars, errVars, stopVars, laterVars>>

\* the sleep of _poll_mentions after an error is over: while self.running
Resume ==
    /\ f_loop = "sleep"
    /\ f_loop' = "idle"
    /\ UNCHANGED <<f_src, f_kind, f_batch, f_pos, f_log>>
    /\ UNCHANGED <<botVars, storeVars, pluginVars, autoVars, retryVars,
                   truncVars, requestVars, errVars, stopVars, laterVars>>

InitFault ==
    /\ InitBot /\ InitStore
    /\ PluginsIdle /\ AutoPostIdle /\ RetryIdle /\ TruncIdle /\ RequestIdle
    /\ ErrIdle /\ StopIdle /\ FaultIdle /\ LaterIdleExcept("cfg")
    /\ enabled_kinds \in SUBSET {"mention", "message"}

NextFault ==
    \/ \E src \in {"ws", "poll"}, kind \in {"mention", "message"},
          n \in 1..MaxBatch :
           \E batch \in [1..n -> Faults] : Deliver(src, kind, batch)
    \/ HandleNext
    \/ Resume

SpecFault == InitFault /\ [][NextFault]_vars

\* C18 (fail closed): an event whose processed-check failed in the store is
\* not marked, not put in the cache, not given to the completion client and
\* not answered.
C18_FailClosed ==
    \A i \in DOMAIN f_log :
        "store_error" \in f_log[i] => f_log[i] = {"seen", "store_error"}

\* the check failed for the second of three polled chat messages, after the
\* first had been answered
C18_Witness ==
    /\ f_src = "poll" /\ f_kind = "message"
    /\ f_batch = <<"none", "check_raises", "none">>
    /\ f_loop = "idle"
    /\ "reply" \in f_log[1]
    /\ f_log[2] = {"seen", "store_error"}

\* C36 (response kinds can be switched off): nothing is done for an event
\* of a kind whose responses are disabled, whichever producer brought it,
\* and an event of an enabled kind with nothing wrong about it is checked,
\* marked, cached, given to the completion client and answered whether the
\* other kind is enabled or not.
C36_KindsSwitchedOff ==
    \A i \in DOMAIN f_log :
        /\ f_kind \notin enabled_kinds => f_log[i] \subseteq {"seen"}
        /\ (/\ f_kind \in enabled_kinds
            /\ f_batch[i] = "none"
            /\ f_log[i] # {})
           => f_log[i] =
                  {"seen", "check", "mark", "cache", "generate", "reply"}

\* with the mentions disabled and the chat messages enabled, a mention has
\* come over the stream and was left alone
C36_Witness ==
    /\ enabled_kinds = {"message"}
    /\ f_src = "ws" /\ f_kind = "mention"
    /\ f_batch = <<"none">>
    /\ f_log = <<{"seen"}>>
    /\ f_loop = "idle"

\* C31 (a failed durable write blocks admission): an event whose processed
\* record could not be written is not put in the cache, not given to the
\* completion client and not answered, and every event put in the cache
\* has its record written.
C31_WriteBlocksAdmission ==
    \A i \in DOMAIN f_log :
        /\ "write_error" \in f_log[i] =>
               f_log[i] \cap {"cache", "generate", "reply", "error_reply"} = {}
        /\ "cache" \in f_log[i] => "mark" \in f_log[i]

\* C19 (containment per event): no producer's loop ends on the failure of
\* an event, and when the producer is done with what it had in hand its loop
\* has reached every event of it.
C19_FailureContained ==
    /\ f_loop \in {"idle", "batch", "sleep"}
    /\ f_loop # "batch" => \A i \in DOMAIN f_log : "seen" \in f_log[i]

(***************************************************************************)
(* The streaming producer.  _start_websocket calls connect_websocket in a  *)
(* loop; connect_websocket has a loop of its own around the connection.    *)
(* An attempt to connect succeeds, fails with an error of the HTTP client  *)
(* (caught inside connect_websocket), or fails with another network error  *)
(* (which leaves connect_websocket and is caught by _start_websocket).     *)
(* Delays are in seconds.                                                  *)
(***************************************************************************)
\* connect_websocket: max_reconnect_attempts, reconnect_delay and its cap
max_reconnect_attempts == 10
ReconnectBase == 1
ReconnectCeiling == 60
\* _start_websocket: max_retries, base_delay and the cap of its delay
WsMaxRetries == 10
WsBaseDelay == 5
WsCeiling == 300

ConnectOutcomes == {"ok", "client_error", "os_error"}

\* _start_websocket, `while self.running`: one more call of
\* connect_websocket, which starts with fresh locals
StartWebsocket ==
    /\ ws_pc = "idle" /\ l_running
    /\ ws_pc' = "connect"
    /\ reconnect_attempts' = 0
    /\ reconnect_delay' = ReconnectBase
    /\ UNCHANGED <<retry_count, ws_slept, ws_fails>>
    /\ UNCHANGED <<poll_pc, l_running, l_cancelled>>
    /\ UNCHANGED <<earlierVars, notLoop>>

\* connect_websocket, lines 490-498: count the attempt; sleep before the
\* next one, or leave the loop and return
AfterAttempt ==
    /\ reconnect_attempts' = reconnect_attempts + 1
    /\ IF reconnect_attempts + 1 < max_reconnect_attempts
       THEN /\ ws_pc' = "sleep"
            /\ ws_slept' = reconnect_delay
            /\ UNCHANGED retry_count
       ELSE \* break: the call returns None, the caller resets retry_count
            /\ ws_pc' = "idle"
            /\ retry_count' = 0
            /\ UNCHANGED ws_slept
    /\ UNCHANGED reconnect_delay

\* session.ws_connect returns or raises
ConnectAttempt(outcome) ==
    /\ ws_pc = "connect" /\ "ws" \notin l_cancelled
    /\ outcome # "ok" => ws_fails < MaxFails
    /\ CASE outcome = "ok" ->
                /\ ws_pc' = "open"
                /\ reconnect_attempts' = 0
                /\ reconnect_delay' = ReconnectBase
                /\ ws_fails' = 0
                /\ UNCHANGED <<retry_count, ws_slept>>
         [] outcome = "client_error" ->
                /\ ws_fails' = ws_fails + 1
                /\ AfterAttempt
         [] outcome = "os_error" ->
                \* _start_websocket, lines 337-356
                /\ ws_fails' = ws_fails + 1
                /\ ws_slept' = Min(WsBaseDelay * Power(2, retry_count),
                                   WsCeiling)
                /\ retry_count' = IF retry_count + 1 >= WsMaxRetries
                                  THEN 0 ELSE retry_count + 1
                /\ ws_pc' = "outer_sleep"
                /\ UNCHANGED <<reconnect_attempts, reconnect_delay>>
    /\ UNCHANGED <<poll_pc, l_running, l_cancelled>>
    /\ UNCHANGED <<earlierVars, notLoop>>

\* the connection is lost: the loop over the frames ends
Disconnect ==
    /\ ws_pc = "open" /\ "ws" \notin l_cancelled
    /\ AfterAttempt
    /\ UNCHANGED ws_fails
    /\ UNCHANGED <<poll_pc, l_running, l_cancelled>>
    /\ UNCHANGED <<earlierVars, notLoop>>

\* a sleep is over; in connect_websocket the delay is doubled up to its cap
WsWake ==
    /\ ws_pc \in {"sleep", "outer_sleep"} /\ "ws" \notin l_cancelled
    /\ IF ws_pc = "sleep"
       THEN /\ reconnect_delay' = Min(reconnect_delay * 2, ReconnectCeiling)
            /\ ws_pc' = "connect"
       ELSE /\ ws_pc' = "idle"
            /\ UNCHANGED reconnect_delay
    /\ UNCHANGED <<reconnect_attempts, retry_count, ws_slept, ws_fails>>
    /\ UNCHANGED <<poll_pc, l_running, l_cancelled>>
    /\ UNCHANGED <<earlierVars, notLoop>>

\* a frame arrives on the open connection and its handler is awaited inside
\* the loop over the frames; the handler returns
WsFrame ==
    /\ ws_pc \in {"open", "handling"} /\ "ws" \notin l_cancelled
    /\ ws_pc' = IF ws_pc = "open" THEN "handling" ELSE "open"
    /\ UNCHANGED <<reconnect_attempts, reconnect_delay, retry_count,
                   ws_slept, ws_fails, poll_pc, l_running, l_cancelled>>
    /\ UNCHANGED <<earlierVars, notLoop>>

\* _poll_mentions, one step of a cycle: the request for the mentions is
\* sent, it returns (with something to handle or not), the handlers return,
\* the sleep between two cycles is over
PollStep ==
    /\ "poll" \notin l_cancelled
    /\ \/ poll_pc = "idle" /\ l_running /\ poll_pc' = "request"
       \/ poll_pc = "request" /\ poll_pc' \in {"handling", "sleep"}
       \/ poll_pc = "handling" /\ poll_pc' = "sleep"
       \/ poll_pc = "sleep" /\ poll_pc' = "idle"
    /\ UNCHANGED <<ws_pc, reconnect_attempts, reconnect_delay, retry_count,
                   ws_slept, ws_fails, l_running, l_cancelled>>
    /\ UNCHANGED <<earlierVars, notLoop>>

\* stop(), lines 295-304: the flag, then cancel() on every task of
\* self.tasks that is not done
StopLoops ==
    /\ l_running
    /\ l_running' = FALSE
    /\ l_cancelled' = {p \in {"ws", "poll"} :
                          IF p = "ws" THEN ws_pc # "exited"
                                      ELSE poll_pc # "exited"}
    /\ UNCHANGED <<ws_pc, reconnect_attempts, reconnect_delay, retry_count,
                   ws_slept, ws_fails, poll_pc>>
    /\ UNCHANGED <<earlierVars, notLoop>>

\* a producer's task ends: at the head of its loop because self.running is
\* false, or at the await where it is suspended because CancelledError is
\* raised there (every loop answers it with break)
LoopExit(p) ==
    /\ LET at == IF p = "ws" THEN ws_pc ELSE poll_pc
       IN  /\ at # "exited"
           /\ IF at = "idle" THEN ~l_running ELSE p \in l_cancelled
    /\ IF p = "ws" THEN ws_pc' = "exited" /\ UNCHANGED poll_pc
                   ELSE poll_pc' = "exited" /\ UNCHANGED ws_pc
    /\ UNCHANGED <<reconnect_attempts, reconnect_delay, retry_count,
                   ws_slept, ws_fails, l_running, l_cancelled>>
    /\ UNCHANGED <<earlierVars, notLoop>>

\* the state start() leaves
InitLoop ==
    /\ EarlierIdle /\ LaterIdleExcept("loop")
    /\ ws_pc = "idle"
    /\ reconnect_attempts = 0
    /\ reconnect_delay = 0
    /\ retry_count = 0
    /\ ws_slept = 0
    /\ ws_fails = 0
    /\ poll_pc = "idle"
    /\ l_running = TRUE
    /\ l_cancelled = {}

NextLoop ==
    \/ StartWebsocket
    \/ \E outcome \in ConnectOutcomes : ConnectAttempt(outcome)
    \/ Disconnect
    \/ WsWake
    \/ WsFrame
    \/ PollStep
    \/ StopLoops
    \/ \E p \in {"ws", "poll"} : LoopExit(p)

SpecLoop == InitLoop /\ [][NextLoop]_vars

\* the event loop runs a task whose cancellation was requested, or which
\* stands at the head of its loop
SpecCoop ==
    SpecLoop /\ \A p \in {"ws", "poll"} : WF_vars(LoopExit(p))

\* C21 (bounded reconnect): inside connect_websocket the delay before the
\* n-th attempt in a row is the base doubled n-1 times, at most the ceiling;
\* and no more than max_reconnect_attempts attempts fail in a row: after
\* that many the producer has stopped.
C21_BoundedReconnect ==
    /\ ws_pc = "sleep" =>
           ws_slept = Min(ReconnectBase * Power(2, reconnect_attempts - 1),
                          ReconnectCeiling)
    /\ ws_fails <= max_reconnect_attempts

\* C32 (no immediate reconnect loop): a connection attempt that fails, or a
\* connection that is lost, leaves the streaming producer in a sleep of a
\* positive delay (or ended), so that no attempt follows another at once.
C32_NoImmediateReconnect ==
    [][(\/ ws_pc = "connect" /\ ws_pc' \notin {"connect", "open"}
        \/ ws_pc = "open" /\ ws_pc' \notin {"open", "handling"})
       => \/ ws_pc' = "exited"
          \/ ws_pc' \in {"sleep", "outer_sleep"} /\ ws_slept' > 0]_vars

\* both producers end once self.running is false
BothExit == ~l_running ~> (ws_pc = "exited" /\ poll_pc = "exited")

\* C22 (cooperative stop): once self.running is false both producers end,
\* and each ends at a checkpoint of its loop, that is at the head of the
\* loop or in a sleep between two iterations, not in the middle of an
\* iteration with a request or a handler in flight.
C22_CooperativeStop ==
    /\ BothExit
    /\ [][/\ (ws_pc' = "exited" /\ ws_pc # "exited") =>
                 ws_pc \in {"idle", "sleep", "outer_sleep"}
          /\ (poll_pc' = "exited" /\ poll_pc # "exited") =>
                 poll_pc \in {"idle", "sleep"}]_vars

(***************************************************************************)
(* The recent-id cache of the mentions over the life of the database: ids  *)
(* are admitted (record written with the store's clock, id appended to the *)
(* deque), the clock moves on, and the process is started again, which     *)
(* fills a new deque from the most recent records.                         *)
(***************************************************************************)
ProcessedAt(id) == (CHOOSE r \in c_rows : r.id = id).processed_at

\* _handle_mention, lines 590-591: mark_mention_processed, then append
CacheAdmit(id) ==
    /\ ~IsProcessed(c_rows, id)
    /\ Cardinality(c_rows) < MaxCacheRows
    /\ c_rows' = InsertOrIgnore(c_rows, id, "u1", "u1", c_now)
    /\ c_cache' = DequeAppend(c_cache, id, c_cap)
    /\ c_evicted' = IF Len(c_cache) >= c_cap THEN Head(c_cache) ELSE None
    /\ c_now' \in {c_now, c_now + 1}
    /\ UNCHANGED c_cap
    /\ UNCHANGED <<earlierVars, notCache>>

\* a new process: __init__ makes an empty deque, start() appends the ids of
\* get_recent_mentions(N) in the order of its answer, newest first
CacheRestart ==
    /\ \E rows \in RecentRows(c_rows, c_cap) :
           c_cache' = LoadCache(<<>>, rows, c_cap)
    /\ c_evicted' = None
    /\ UNCHANGED <<c_cap, c_rows, c_now>>
    /\ UNCHANGED <<earlierVars, notCache>>

InitCache ==
    /\ EarlierIdle /\ LaterIdleExcept("cache")
    /\ c_cap \in 1..MaxCacheCap
    /\ c_rows = {}
    /\ c_cache = <<>>
    /\ c_now = 0
    /\ c_evicted = None

NextCache ==
    \/ \E id \in Ids : CacheAdmit(id)
    \/ CacheRestart

SpecCache == InitCache /\ [][NextCache]_vars

\* C23 (cache eviction): the cache holds at most N ids; right after a start
\* it holds the ids of the N most recent records; and an append at capacity
\* pushes out the id that was processed first among those in the cache.
C23_CacheEviction ==
    /\ [](Len(c_cache) <= c_cap)
    /\ [][c_evicted' # None /\ c_cache' # c_cache =>
              \A id \in Range(c_cache) :
                  ProcessedAt(c_evicted') <= ProcessedAt(id)]_vars

(***************************************************************************)
(* The scheduler's jobs.  start() adds four jobs to an AsyncIOScheduler    *)
(* made with its defaults, and gives none of them a max_instances of its   *)
(* own: the scheduler starts a run of a job only while fewer than one run  *)
(* of that job is in progress, and skips the firing otherwise.  "reset"    *)
(* (_reset_daily_post_count) and "auto_post" (_auto_post) are the job      *)
(* functions themselves.  For "cleanup" and "vacuum" the job function is a *)
(* lambda that spawns a task and returns: the scheduler sees the lambda,   *)
(* not the task.  The spawned task is a store call, which does not         *)
(* suspend: it starts and ends in one step of the event loop.              *)
(***************************************************************************)
Jobs == {"reset", "cleanup", "vacuum", "auto_post"}
Spawning == {"cleanup", "vacuum"}

\* the default of the scheduler for the runs of one job
MaxInstances == 1

\* a scheduler that starts a run whatever is in progress
MayStartAlways(n) == TRUE
\* the scheduler's test before it starts a run of a job
MayStart(n) == n < MaxInstances

\* the trigger of a job fires
JobFire(job) ==
    /\ IF job \in Spawning
       THEN /\ j_pending[job] < MaxPending
            /\ j_pending' = [j_pending EXCEPT ![job] = @ + 1]
            /\ j_last' = <<job, "spawned">>
            /\ UNCHANGED j_runs
       ELSE /\ j_runs[job] < MaxRuns
            /\ IF MayStart(j_runs[job])
               THEN /\ j_runs' = [j_runs EXCEPT ![job] = @ + 1]
                    /\ j_last' = <<job, "started">>
               ELSE /\ j_last' = <<job, "skipped">>
                    /\ UNCHANGED j_runs
            /\ UNCHANGED j_pending
    /\ UNCHANGED <<earlierVars, notJob>>

\* a run of _auto_post or of _reset_daily_post_count ends, by return or by
\* an exception
JobDone(job) ==
    /\ job \notin Spawning
    /\ j_runs[job] > 0
    /\ j_runs' = [j_runs EXCEPT ![job] = @ - 1]
    /\ UNCHANGED <<j_pending, j_last>>
    /\ UNCHANGED <<earlierVars, notJob>>

\* the event loop runs a spawned task from its start to its end
SpawnedRun(job) ==
    /\ job \in Spawning
    /\ j_pending[job] > 0
    /\ j_pending' = [j_pending EXCEPT ![job] = @ - 1]
    /\ UNCHANGED <<j_runs, j_last>>
    /\ UNCHANGED <<earlierVars, notJob>>

InitJobs ==
    /\ EarlierIdle /\ LaterIdleExcept("job")
    /\ j_runs = [job \in Jobs |-> 0]
    /\ j_pending = [job \in Jobs |-> 0]
    /\ j_last = <<>>

NextJobs ==
    \/ \E job \in Jobs : JobFire(job)
    \/ \E job \in Jobs : JobDone(job)
    \/ \E job \in Jobs : SpawnedRun(job)

SpecJobs == InitJobs /\ [][NextJobs]_vars

Callers == {"ws", "poll", "job"}

\* a context manager that releases only when the body returns
ReleasedOnReturn(outcome) == outcome = "ok"
\* `async with self._lock`: __aexit__ releases however the body ends
Released(outcome) == TRUE

\* a caller enters an operation: `async with self._lock` acquires
Acquire(t) ==
    /\ op_pc[t] = "idle"
    /\ IF lock_holder = None /\ lock_waiters = <<>>
       THEN /\ lock_holder' = t
            /\ op_pc' = [op_pc EXCEPT ![t] = "body"]
            /\ UNCHANGED lock_waiters
       ELSE /\ lock_waiters' = Append(lock_waiters, t)
            /\ op_pc' = [op_pc EXCEPT ![t] = "waiting"]
            /\ UNCHANGED lock_holder
    /\ UNCHANGED op_last
    /\ UNCHANGED <<earlierVars, notLock>>

\* the body of the operation ends, by a return or by an exception that is
\* not caught inside it, and the context manager is left
Finish(t, outcome) ==
    /\ op_pc[t] = "body"
    /\ op_pc' = [op_pc EXCEPT ![t] = "idle"]
    /\ op_last' = [op_last EXCEPT ![t] = outcome]
    /\ lock_holder' = IF Released(outcome) THEN None ELSE lock_holder
    /\ UNCHANGED lock_waiters
    /\ UNCHANGED <<earlierVars, notLock>>

\* the first caller of the queue, woken by the release, takes the lock
WakeWaiter ==
    /\ lock_holder = None
    /\ lock_waiters # <<>>
    /\ lock_holder' = Head(lock_waiters)
    /\ op_pc' = [op_pc EXCEPT ![Head(lock_waiters)] = "body"]
    /\ lock_waiters' = Tail(lock_waiters)
    /\ UNCHANGED op_last
    /\ UNCHANGED <<earlierVars, notLock>>

InitLock ==
    /\ EarlierIdle /\ LaterIdleExcept("lock")
    /\ op_pc = [t \in Callers |-> "idle"]
    /\ lock_holder = None
    /\ lock_waiters = <<>>
    /\ op_last = [t \in Callers |-> "none"]

NextLock ==
    \/ \E t \in Callers : Acquire(t)
    \/ \E t \in Callers, outcome \in {"ok", "error"} : Finish(t, outcome)
    \/ WakeWaiter

\* the event loop runs the caller that holds the lock and the caller that
\* was woken
SpecLock ==
    /\ InitLock /\ [][NextLock]_vars
    /\ WF_vars(\E t \in Callers, outcome \in {"ok", "error"} :
                   Finish(t, outcome))
    /\ WF_vars(WakeWaiter)

\* C28 (store serialization): at most one caller is inside the body of a
\* store operation, and it is the holder of the lock; the lock is held by
\* nobody else, so an operation that has ended, by return or by error, has
\* released it; and every caller that waits for the lock gets it.
C28_StoreSerialized ==
    /\ [](/\ Cardinality({t \in Callers : op_pc[t] = "body"}) <= 1
          /\ \A t \in Callers : op_pc[t] = "body" <=> lock_holder = t)
    /\ \A t \in Callers : (op_pc[t] = "waiting") ~> (op_pc[t] = "body")

\* an operation of the streaming task has ended with an error, and the
\* polling task, which had been waiting, is inside its own operation
C28_Witness ==
    /\ op_last["ws"] = "error"
    /\ op_pc["ws"] = "idle"
    /\ op_pc["poll"] = "body"
    /\ lock_holder = "poll"
    /\ lock_waiters = <<"job">>

(***************************************************************************)
(* The history of a direct message.  _handle_message, for an admitted      *)
(* message of the counterpart, asks the upstream for the last messages of  *)
(* the conversation (get_messages with limit 5: the upstream answers with  *)
(* the newest ones, newest first, and no more than the limit), turns them  *)
(* into turns, appends the current message, puts the system prompt in      *)
(* front and calls generate_chat_response, which validates the list before *)
(* it calls the completion API.  A message is its author (userId) and its  *)
(* text; "" stands for a message without text.                             *)
(***************************************************************************)
\* _get_chat_history(user_id, limit=5)
HistoryLimit == 5

Counterpart == "u1"
CurrentText == "q"
StoredMessages == [userId : {Counterpart, BotId}, text : {"", "a"}]

Turn(role, content) == [role |-> role, content |-> content]

\* the upstream applies the limit to its list, newest first
GetMessages(limit) ==
    SubSeq(h_stored, 1, Min(limit, Len(h_stored)))

\* a loop over the messages in the order received
InOrder(s) == s
\* reversed(messages)
Reversed(s) == [i \in 1..Len(s) |-> s[Len(s) + 1 - i]]

\* _get_chat_history: the turn of each message, oldest first; [] when the
\* request fails
GetChatHistory(ok) ==
    IF ~ok THEN <<>>
    ELSE LET messages == Reversed(GetMessages(HistoryLimit))
         IN  [i \in 1..Len(messages) |->
                 Turn(IF messages[i].userId = Counterpart
                      THEN "user" ELSE "assistant",
                      messages[i].text)]

\* lines 705-712: the history, the current message appended, the system
\* prompt inserted in front unless the first turn is a system turn
BuildHistory(ok) ==
    /\ h_pc = "idle"
    /\ LET with_current ==
               Append(GetChatHistory(ok), Turn("user", CurrentText))
       IN  chat_history' =
               IF Head(with_current).role # "system"
               THEN <<Turn("system", h_prompt)>> \o with_current
               ELSE with_current
    /\ h_pc' = "built"
    /\ UNCHANGED <<h_stored, h_prompt>>
    /\ UNCHANGED <<earlierVars, notHist>>

\* generate_chat_response, lines 309-319: a list with a turn whose content
\* is empty is turned away with ValueError, any other goes to the API
GenerateChatResponse ==
    /\ h_pc = "built"
    /\ h_pc' = IF \E i \in 1..Len(chat_history) : chat_history[i].content = ""
               THEN "rejected" ELSE "passed"
    /\ UNCHANGED <<h_stored, h_prompt, chat_history>>
    /\ UNCHANGED <<earlierVars, notHist>>

InitHist ==
    /\ EarlierIdle /\ LaterIdleExcept("hist")
    /\ h_stored \in UNION {[1..n -> StoredMessages] : n \in 0..MaxStored}
    /\ h_prompt \in {"", "s"}
    /\ chat_history = <<>>
    /\ h_pc = "idle"

NextHist ==
    \/ \E ok \in BOOLEAN : BuildHistory(ok)
    \/ GenerateChatResponse

SpecHist == InitHist /\ [][NextHist]_vars

\* the turns of a list between the system turn and the current message
PriorTurns == SubSeq(chat_history, 2, Len(chat_history) - 1)

PollingIntervals == {60, 1000}
\* _poll_mentions: max_retries and the ceilings of the two delays
PollMaxRetries == 5
ApiCeiling == 1800
OtherCeiling == 900

CycleOutcomes == {"ok", "api", "network", "other"}

\* a delay that is not cut
Uncapped(delay, ceiling) == delay
\* min(base_delay * (f ** (retry_count - 1)), ceiling)
Capped(delay, ceiling) == Min(delay, ceiling)

\* `while self.running`: a cycle is started
PollCycleStart ==
    /\ pm_pc = "head" /\ pm_running
    /\ pm_pc' = "cycle"
    /\ UNCHANGED <<pm_retry_count, pm_base_delay, pm_delay, pm_last,
                   pm_running, pm_cancelled>>
    /\ UNCHANGED <<earlierVars, notPoll>>

\* the cycle ends: retry_count = 0 and the sleep of the interval, or an
\* except clause: `if not self.running: break`, the count, the delay, the
\* reset of the count at max_retries, the sleep
PollCycleEnd(outcome) ==
    /\ pm_pc = "cycle" /\ ~pm_cancelled
    /\ pm_last' = outcome
    /\ IF outcome = "ok"
       THEN /\ pm_retry_count' = 0
            /\ pm_delay' = pm_base_delay
            /\ pm_pc' = "sleep"
       ELSE IF ~pm_running
       THEN /\ pm_pc' = "exited"
            /\ UNCHANGED <<pm_retry_count, pm_delay>>
       ELSE LET n == pm_retry_count + 1
            IN  /\ pm_delay' =
                       IF outcome = "api"
                       THEN Capped(pm_base_delay * Power(3, n - 1),
                                   ApiCeiling)
                       ELSE Capped(pm_base_delay * Power(2, n - 1),
                                   OtherCeiling)
                /\ pm_retry_count' = IF n >= PollMaxRetries THEN 0 ELSE n
                /\ pm_pc' = "sleep"
    /\ UNCHANGED <<pm_base_delay, pm_running, pm_cancelled>>
    /\ UNCHANGED <<earlierVars, notPoll>>

\* asyncio.sleep returns: back to the head of the loop
PollWake ==
    /\ pm_pc = "sleep" /\ ~pm_cancelled
    /\ pm_pc' = "head"
    /\ UNCHANGED <<pm_retry_count, pm_base_delay, pm_delay, pm_last,
                   pm_running, pm_cancelled>>
    /\ UNCHANGED <<earlierVars, notPoll>>

\* stop(): the flag, then cancel() on the task
PollStop ==
    /\ pm_running
    /\ pm_running' = FALSE
    /\ pm_cancelled' = (pm_pc # "exited")
    /\ UNCHANGED <<pm_pc, pm_retry_count, pm_base_delay, pm_delay, pm_last>>
    /\ UNCHANGED <<earlierVars, notPoll>>

\* the loop ends: at its head on the flag, elsewhere on CancelledError
PollExit ==
    /\ pm_pc # "exited"
    /\ IF pm_pc = "head" THEN ~pm_running ELSE pm_cancelled
    /\ pm_pc' = "exited"
    /\ UNCHANGED <<pm_retry_count, pm_base_delay, pm_delay, pm_last,
                   pm_running, pm_cancelled>>
    /\ UNCHANGED <<earlierVars, notPoll>>

InitPoll ==
    /\ EarlierIdle /\ LaterIdleExcept("poll")
    /\ pm_pc = "head"
    /\ pm_retry_count = 0
    /\ pm_base_delay \in PollingIntervals
    /\ pm_delay = 0
    /\ pm_last = "none"
    /\ pm_running = TRUE
    /\ pm_cancelled = FALSE

\* what the event loop does for the task: every request comes back, with a
\* result or an error, and every sleep ends
PollRun ==
    \/ PollCycleStart
    \/ \E outcome \in CycleOutcomes : PollCycleEnd(outcome)
    \/ PollWake
    \/ PollExit

NextPoll ==
    \/ PollRun
    \/ PollStop

SpecPoll == InitPoll /\ [][NextPoll]_vars /\ WF_vars(PollRun)

\* C33 (the polling producer never gives up while running): the loop ends
\* only when self.running is false; the sleep after a failed cycle is at
\* most 1800 s after an API error and at most 900 s after another error;
\* and unless self.running becomes false a cycle is started again and again.
C33_PollingKeepsOn ==
    /\ [](pm_pc = "exited" => ~pm_running)
    /\ [](pm_pc = "sleep" /\ pm_last # "ok" =>
              pm_delay <= IF pm_last = "api" THEN ApiCeiling
                                             ELSE OtherCeiling)
    /\ []<>(~pm_running \/ pm_pc = "cycle")

\* the fifth API error in a row, with an interval of 60 s: the loop sleeps
\* the ceiling and has reset its count
C33_Witness ==
    /\ pm_running
    /\ pm_base_delay = 60
    /\ pm_pc = "sleep"
    /\ pm_last = "api"
    /\ pm_delay = ApiCeiling
    /\ pm_retry_count = 0

(***************************************************************************)
(* The life of the bot: start() and stop() called one after the other, as  *)
(* main() and its shutdown do, where a further stop() may come in while    *)
(* stop() waits for the tasks (one task per signal).  A producer's task    *)
(* ends only after its cancellation was requested.  In stop(),             *)
(* scheduler.shutdown() raises when the scheduler does not run, the gather *)
(* with return_exceptions=True does not raise, and MisskeyAPI.close(),     *)
(* which catches nothing but the CancelledError of its heartbeat, raises   *)
(* what closing the connection or the session raises.                      *)
(***************************************************************************)
Producers == {"ws", "poll"}

\* a start() that does not look at the flag
StartGuardNone == FALSE
\* start(): `if self.running: return`
StartGuard == lc_running

\* start() is called and runs to its end
StartCall ==
    /\ lc_pc = "idle" /\ lc_calls < MaxCalls
    /\ lc_calls' = lc_calls + 1
    /\ IF StartGuard
       THEN /\ lc_last' = "ignored"
            /\ UNCHANGED <<lc_running, lc_scheduler, lc_tasks, lc_alive,
                           lc_client_open>>
       ELSE /\ lc_running' = TRUE
            /\ lc_scheduler' = TRUE
            /\ lc_tasks' = lc_tasks + 2
            /\ lc_alive' = [p \in Producers |-> lc_alive[p] + 1]
            /\ lc_client_open' = TRUE
            /\ lc_last' = "started"
    /\ UNCHANGED <<lc_cancel, lc_pc, lc_store_open>>
    /\ UNCHANGED <<earlierVars, notLife>>

\* stop() is called and runs up to its gather: the guard, the flag,
\* scheduler.shutdown(), cancel() on every task of self.tasks
StopCall ==
    /\ lc_calls < MaxCalls
    /\ lc_calls' = lc_calls + 1
    /\ IF ~lc_running
       THEN /\ lc_last' = "ignored"
            /\ UNCHANGED <<lc_running, lc_scheduler, lc_cancel, lc_pc>>
       ELSE /\ lc_running' = FALSE
            /\ IF lc_scheduler
               THEN /\ lc_scheduler' = FALSE
                    /\ lc_cancel' = lc_alive
                    /\ lc_pc' = "gather"
                    /\ lc_last' = "stopping"
               ELSE \* SchedulerNotRunningError: logged, stop() returns
                    /\ lc_last' = "stopped"
                    /\ UNCHANGED <<lc_scheduler, lc_cancel, lc_pc>>
    /\ UNCHANGED <<lc_tasks, lc_alive, lc_client_open, lc_store_open>>
    /\ UNCHANGED <<earlierVars, notLife>>

\* a producer's task takes the CancelledError and ends
TaskEnd(p) ==
    /\ lc_cancel[p] > 0
    /\ lc_cancel' = [lc_cancel EXCEPT ![p] = @ - 1]
    /\ lc_alive' = [lc_alive EXCEPT ![p] = @ - 1]
    /\ UNCHANGED <<lc_running, lc_scheduler, lc_tasks, lc_pc, lc_client_open,
                   lc_store_open, lc_last, lc_calls>>
    /\ UNCHANGED <<earlierVars, notLife>>

\* the gather of stop() returns, and stop() runs to its end:
\* self.tasks = [], misskey.close(), persistence.close(); an exception of
\* the client's close is logged by `except Exception` and ends the try
StopGathered(client_ok) ==
    /\ lc_pc = "gather"
    /\ \A p \in Producers : lc_cancel[p] = 0
    /\ lc_tasks' = 0
    /\ IF client_ok
       THEN lc_client_open' = FALSE /\ lc_store_open' = FALSE
       ELSE UNCHANGED <<lc_client_open, lc_store_open>>
    /\ lc_pc' = "idle"
    /\ lc_last' = "stopped"
    /\ UNCHANGED <<lc_running, lc_scheduler, lc_alive, lc_cancel, lc_calls>>
    /\ UNCHANGED <<earlierVars, notLife>>

\* the state MisskeyBot.__init__ leaves
InitLife ==
    /\ EarlierIdle /\ LaterIdleExcept("life")
    /\ lc_running = FALSE
    /\ lc_scheduler = FALSE
    /\ lc_tasks = 0
    /\ lc_alive = [p \in Producers |-> 0]
    /\ lc_cancel = [p \in Producers |-> 0]
    /\ lc_pc = "idle"
    /\ lc_client_open = FALSE
    /\ lc_store_open = TRUE
    /\ lc_last = "none"
    /\ lc_calls = 0

NextLife ==
    \/ StartCall
    \/ StopCall
    \/ \E p \in Producers : TaskEnd(p)
    \/ \E client_ok \in BOOLEAN : StopGathered(client_ok)

SpecLife == InitLife /\ [][NextLife]_vars

\* C34 (start and stop are idempotent for the background tasks): at most
\* one task of each producer exists; a call that finds the bot in the state
\* it asks for changes nothing; and once stop() on a running bot has
\* returned, no task exists until the next start().
C34_StartStopIdempotent ==
    /\ [](\A p \in Producers : lc_alive[p] <= 1)
    /\ [](lc_last = "stopped" /\ lc_pc = "idle" =>
              \A p \in Producers : lc_alive[p] = 0)
    /\ [][lc_last' = "ignored" /\ lc_calls' # lc_calls =>
              UNCHANGED <<lc_running, lc_scheduler, lc_tasks, lc_alive,
                          lc_cancel, lc_pc, lc_client_open,
                          lc_store_open>>]_vars

\* start() was called again on a bot that had been started, stopped and
\* started before: the bot runs with one task of each producer
C34_Witness ==
    /\ lc_calls = 4
    /\ lc_last = "ignored"
    /\ lc_running
    /\ lc_tasks = 2
    /\ \A p \in Producers : lc_alive[p] = 1

\* C35 (stop() always releases the store): once stop() on a running bot has
\* returned, the connection of the store is closed.
C35_StopReleasesStore ==
    lc_last = "stopped" /\ lc_pc = "idle" => ~lc_store_open

(***************************************************************************)
(* Specification SpecBeat: the stream of one MisskeyAPI and its heartbeat. *)
(* connect_websocket runs in the task of _start_websocket, which stop()    *)
(* cancels and waits for before it calls close(); a later start() runs it  *)
(* again on the same client.  A heartbeat task is "created" until its      *)
(* first step, then in the sleep of 30 s after a turn ("sleep") or in the  *)
(* sleep of 5 s of an except clause ("error_sleep"), and at last "done".   *)
(***************************************************************************)
BeatLive(b) == hb_state[b] \in {"created", "sleep", "error_sleep"}

\* a connect that starts a heartbeat whatever the field holds
HeartbeatNeededAlways == TRUE
\* if self.ws_heartbeat_task is None or self.ws_heartbeat_task.done()
HeartbeatNeeded ==
    \/ ws_heartbeat_task = 0
    \/ hb_state[ws_heartbeat_task] = "done"

\* the tasks not created yet: at most MaxBeats are created in a run
FreeBeats == {b \in Beats : hb_state[b] = "none"}
NewBeat == CHOOSE b \in FreeBeats : \A c \in FreeBeats : b <= c

\* _start_websocket calls connect_websocket
ConnectCall ==
    /\ hb_connect = "idle"
    /\ hb_close = "idle"
    /\ hb_connect' = "connecting"
    /\ hb_last' = "connect"
    /\ UNCHANGED <<ws_heartbeat_task, ws_connection, hb_state, hb_cancel,
                   hb_close, hb_pinged>>
    /\ UNCHANGED <<earlierVars, notBeat>>

\* session.ws_connect returns a connection: the heartbeat is started if
\* there is none, and the messages are awaited
ConnectOpen ==
    /\ hb_connect = "connecting"
    /\ ws_connection' = "open"
    /\ IF HeartbeatNeeded
       THEN /\ FreeBeats # {}
            /\ ws_heartbeat_task' = NewBeat
            /\ hb_state' = [hb_state EXCEPT ![NewBeat] = "created"]
       ELSE UNCHANGED <<ws_heartbeat_task, hb_state>>
    /\ hb_connect' = "listening"
    /\ UNCHANGED <<hb_cancel, hb_close, hb_last, hb_pinged>>
    /\ UNCHANGED <<earlierVars, notBeat>>

\* session.ws_connect raises, or the open connection is closed by the
\* other side: the sleep before the next attempt
ConnectLost ==
    /\ hb_connect \in {"connecting", "listening"}
    /\ ws_connection' =
           IF hb_connect = "listening" THEN "closed" ELSE ws_connection
    /\ hb_connect' = "backoff"
    /\ UNCHANGED <<ws_heartbeat_task, hb_state, hb_cancel, hb_close,
                   hb_last, hb_pinged>>
    /\ UNCHANGED <<earlierVars, notBeat>>

\* the sleep is over (or connect_websocket has returned and is called
\* again): the next attempt
ReconnectWake ==
    /\ hb_connect = "backoff"
    /\ hb_connect' = "connecting"
    /\ UNCHANGED <<ws_heartbeat_task, ws_connection, hb_state, hb_cancel,
                   hb_close, hb_last, hb_pinged>>
    /\ UNCHANGED <<earlierVars, notBeat>>

\* stop() cancels the task and gather returns: connect_websocket is left
\* where it was, its connection as it is
ConnectCancelled ==
    /\ hb_connect # "idle"
    /\ hb_connect' = "idle"
    /\ UNCHANGED <<ws_heartbeat_task, ws_connection, hb_state, hb_cancel,
                   hb_close, hb_last, hb_pinged>>
    /\ UNCHANGED <<earlierVars, notBeat>>

\* one turn of _ws_heartbeat: a ping if the connection is there and not
\* closed, which may raise, then the sleep
HeartbeatTurn(b, ping_ok) ==
    /\ BeatLive(b)
    /\ b \notin hb_cancel
    /\ IF ws_connection = "open"
       THEN IF ping_ok
            THEN /\ hb_pinged' = ws_connection
                 /\ hb_state' = [hb_state EXCEPT ![b] = "sleep"]
            ELSE /\ hb_state' = [hb_state EXCEPT ![b] = "error_sleep"]
                 /\ UNCHANGED hb_pinged
       ELSE /\ hb_state' = [hb_state EXCEPT ![b] = "sleep"]
            /\ UNCHANGED hb_pinged
    /\ UNCHANGED <<ws_heartbeat_task, ws_connection, hb_cancel, hb_connect,
                   hb_close, hb_last>>
    /\ UNCHANGED <<earlierVars, notBeat>>

\* the CancelledError reaches the task: in the try it is caught and the
\* loop is left; in the sleep of an except clause, or before the first
\* step, it ends the task as cancelled
HeartbeatCancelled(b) ==
    /\ b \in hb_cancel
    /\ hb_state' = [hb_state EXCEPT ![b] = "done"]
    /\ hb_cancel' = hb_cancel \ {b}
    /\ UNCHANGED <<ws_heartbeat_task, ws_connection, hb_connect, hb_close,
                   hb_last, hb_pinged>>
    /\ UNCHANGED <<earlierVars, notBeat>>

\* the rest of close() after the heartbeat: the connection is closed and
\* forgotten if it is open
CloseConnection ==
    ws_connection' = IF ws_connection = "open" THEN "none" ELSE ws_connection

\* close() is called: the heartbeat is cancelled and awaited; with no
\* heartbeat the connection is closed at once
CloseCall ==
    /\ hb_close = "idle"
    /\ hb_connect = "idle"
    /\ IF ws_heartbeat_task # 0
       THEN /\ hb_cancel' =
                   IF BeatLive(ws_heartbeat_task)
                   THEN hb_cancel \cup {ws_heartbeat_task}
                   ELSE hb_cancel
            /\ hb_close' = "await"
            /\ hb_last' = "close"
            /\ UNCHANGED ws_connection
       ELSE /\ CloseConnection
            /\ hb_last' = "closed"
            /\ UNCHANGED <<hb_cancel, hb_close>>
    /\ UNCHANGED <<ws_heartbeat_task, hb_state, hb_connect, hb_pinged>>
    /\ UNCHANGED <<earlierVars, notBeat>>

\* the awaited heartbeat has ended: the field is cleared, the connection
\* closed, and close() returns
CloseReturn ==
    /\ hb_close = "await"
    /\ hb_state[ws_heartbeat_task] = "done"
    /\ ws_heartbeat_task' = 0
    /\ CloseConnection
    /\ hb_close' = "idle"
    /\ hb_last' = "closed"
    /\ UNCHANGED <<hb_state, hb_cancel, hb_connect, hb_pinged>>
    /\ UNCHANGED <<earlierVars, notBeat>>

InitBeat == EarlierIdle /\ LaterIdleExcept("beat") /\ BeatIdle

NextBeat ==
    \/ ConnectCall
    \/ ConnectOpen
    \/ ConnectLost
    \/ ReconnectWake
    \/ ConnectCancelled
    \/ \E b \in Beats, ping_ok \in BOOLEAN : HeartbeatTurn(b, ping_ok)
    \/ \E b \in Beats : HeartbeatCancelled(b)
    \/ CloseCall
    \/ CloseReturn

SpecBeat == InitBeat /\ [][NextBeat]_vars

\* C38 (single heartbeat): at most one heartbeat task of the client is
\* alive at any time; a ping is sent only on an open connection; and when
\* close() has returned no heartbeat task is alive and the field is empty.
C38_SingleHeartbeat ==
    /\ Cardinality({b \in Beats : BeatLive(b)}) <= 1
    /\ hb_pinged \in {"none", "open"}
    /\ hb_last = "closed" =>
           /\ ws_heartbeat_task = 0
           /\ \A b \in Beats : ~BeatLive(b)

\* the client was connected, closed, connected again and closed again: its
\* two heartbeats have pinged and have ended
C38_Witness ==
    /\ hb_last = "closed"
    /\ hb_state[1] = "done"
    /\ hb_state[2] = "done"
    /\ hb_pinged = "open"
    /\ ws_connection = "none"

====
